---- MODULE Spec2Model ----
(***************************************************************************)
(* A model of notion-mcp: the NotionClient transport client (client.py),   *)
(* the pydantic models and the markdown renderer (models/notion.py) and    *)
(* the call_tool dispatcher (server.py).                                   *)
(*                                                                         *)
(* Python strings whose characters matter (identifiers, rendered markdown) *)
(* are sequences of one-character strings.  A literal part of a URL, which *)
(* holds no '-', is kept as a single atom of such a sequence.              *)
(* JSON values are tagged records: Null, JBool(b), JInt(n), JStr(s),       *)
(* JList(q), JDict(f), with f a function from keys to values.              *)
(***************************************************************************)
EXTENDS Integers, Sequences, FiniteSets, TLC

VARIABLES
    client,     \* the NotionClient instance the server holds (its attributes)
    cpc,        \* position of a direct NotionClient invocation: idle / waiting / done
    cop,        \* the NotionClient method being invoked
    cargs,      \* its arguments (a record)
    cresp,      \* the outcome of the HTTP exchange the method awaited
    cresult,    \* what the method returned or raised
    sent,       \* the HTTP requests sent during the current invocation, in order
    rfn,        \* the renderer being applied: rich_text_to_markdown / block_to_markdown
    rin,        \* its argument
    rout,       \* the string it returned, or the exception it raised
    dfn,        \* the pydantic model being constructed from raw JSON
    din,        \* the raw JSON
    dout,       \* the instance constructed, or the exception raised
    dval,       \* the instance being serialised, when there is one
    spc,        \* position of call_tool: idle / awaiting / returned
    sname,      \* the tool name it was called with
    sarguments, \* the argument bag it was called with
    sresult,    \* what call_tool handed back to the dispatch loop
    serving,    \* the dispatch loop is alive
    failed,     \* calls so far that ended in an error text
    calls       \* the call_tool invocations running concurrently, one per context

cvars == <<client, cpc, cop, cargs, cresp, cresult, sent>>
rvars == <<rfn, rin, rout>>
dvars == <<dfn, din, dout, dval>>
svars == <<spc, sname, sarguments, sresult, serving, failed>>
kvars == <<calls>>
vars == <<cvars, rvars, dvars, svars, kvars>>
notClient == <<rvars, dvars, svars, kvars>>
notRender == <<cvars, dvars, svars, kvars>>
notDecode == <<cvars, rvars, svars, kvars>>
notServer == <<rvars, dvars, kvars>>
notCalls == <<cpc, cop, cargs, cresp, cresult, sent, rvars, dvars, svars>>

-----------------------------------------------------------------------------
(* Bounds of the model *)

\* longest identifier tried
MaxIdLen == 3
\* longest result list in a response
MaxResults == 2
\* longest rich-text list of a block
MaxRuns == 2
\* most variant fields a raw property value holds
MaxVariants == 2
\* failing calls counted
MaxFailures == 2
\* call contexts running call_tool at the same time
MaxContexts == 2

-----------------------------------------------------------------------------
(* JSON values and Python's view of them *)

Null == [t |-> "null"]
JBool(b) == [t |-> "bool", v |-> b]
JInt(n) == [t |-> "int", v |-> n]
JStr(s) == [t |-> "str", v |-> s]
JList(q) == [t |-> "list", v |-> q]
JDict(f) == [t |-> "dict", v |-> f]
JFloat(n) == [t |-> "float", v |-> n]

EmptyMap == [k \in {} |-> Null]

\* bool(x)
Truthy(x) ==
    CASE x.t = "null" -> FALSE
      [] x.t = "bool" -> x.v
      [] x.t = "int" -> x.v # 0
      [] x.t = "str" -> Len(x.v) > 0
      [] x.t = "list" -> Len(x.v) > 0
      [] x.t = "dict" -> DOMAIN x.v # {}

\* d.get(k) on the mapping f of a dict
Get(f, k) == IF k \in DOMAIN f THEN f[k] ELSE Null

\* d.get(k, default)
GetDefault(f, k, default) == IF k \in DOMAIN f THEN f[k] ELSE default

\* {k: v} when cond, else nothing: the "if x: body[k] = x" idiom
Field(cond, k, val) == IF cond THEN k :> val ELSE EmptyMap

IdChars == {"a", "b", "-"}
Ids == UNION {[1..n -> IdChars] : n \in 0..MaxIdLen}

NormalizeFirstOnly(s) ==
    IF \E i \in 1..Len(s) : s[i] = "-"
    THEN LET i == CHOOSE j \in 1..Len(s) : s[j] = "-" /\ \A k \in 1..(j-1) : s[k] # "-"
         IN  SubSeq(s, 1, i-1) \o SubSeq(s, i+1, Len(s))
    ELSE s

\* s.replace("-", "") on the characters of s
Normalize(s) == SelectSeq(s, LAMBDA c : c # "-")

-----------------------------------------------------------------------------
(* Exceptions and the outcome of a piece of code *)

NoExc == [kind |-> "none", status |-> 0, body |-> Null, url |-> <<>>, msg |-> <<>>]
Exc(kind) == [kind |-> kind, status |-> 0, body |-> Null, url |-> <<>>, msg |-> <<>>]

\* ValueError(msg)
ValueError(msg) == [kind |-> "ValueError", status |-> 0, body |-> Null, url |-> <<>>, msg |-> msg]

\* httpx.HTTPStatusError: carries the response (status code and body) and the URL
HTTPStatusError(resp, url) ==
    [kind |-> "HTTPStatusError", status |-> resp.status, body |-> resp.body, url |-> url,
     msg |-> <<>>]

Returned(val) == [ok |-> TRUE, val |-> val, exc |-> NoExc]
Raised(e) == [ok |-> FALSE, val |-> Null, exc |-> e]

-----------------------------------------------------------------------------
(* NotionClient.__init__ *)

ApiKey == <<"secret">>
BaseUrl == <<"https://api.notion.com/v1">>
Headers(api_key) ==
    [Authorization |-> <<"Bearer ">> \o api_key,
     ContentType |-> "application/json",
     NotionVersion |-> "2022-06-28"]

\* __init__, were it to send the key without the scheme
NotionClientBareKey(api_key) ==
    [api_key |-> api_key, base_url |-> BaseUrl,
     headers |-> [Headers(api_key) EXCEPT !.Authorization = api_key]]

\* NotionClient(api_key): the attributes __init__ sets
NotionClient(api_key) ==
    [api_key |-> api_key, base_url |-> BaseUrl, headers |-> Headers(api_key)]

NoRequest == [method |-> "none"]
Request(headers, method, url, json, params) ==
    [method |-> method, url |-> url, headers |-> headers,
     json |-> json, params |-> params]

-----------------------------------------------------------------------------
(* pydantic models (models/notion.py).  The fields of a raw entity that    *)
(* the claims do not look at are summarised by its "fits" entry: the model *)
(* whose required fields the raw entity supplies with the right types.     *)

FitsModel(data, model) ==
    /\ data.t = "dict"
    /\ "fits" \in DOMAIN data.v
    /\ data.v["fits"] = model

Instance(model, data) == [model |-> model, object |-> data.v["object"], id |-> data.v["id"]]

\* Model(**data): TypeError when data is no mapping, ValidationError when a
\* required field is missing or ill-typed
Construct(model, data) ==
    IF data.t # "dict" THEN Raised(Exc("TypeError"))
    ELSE IF ~FitsModel(data, model) THEN Raised(Exc("ValidationError"))
    ELSE Returned(Instance(model, data))

-----------------------------------------------------------------------------
(* The HTTP exchange *)

RaisesOnlyServerError(resp) == resp.status >= 500

\* response.raise_for_status()
RaisesForStatus(resp) == resp.status < 200 \/ resp.status > 299

\* raise_for_status() followed by response.json()
ResponseJson(resp, url) ==
    IF RaisesForStatus(resp) THEN Raised(HTTPStatusError(resp, url))
    ELSE IF ~resp.body.isjson THEN Raised(Exc("JSONDecodeError"))
    ELSE Returned(resp.body.data)

-----------------------------------------------------------------------------
(* NotionClient: the request each method builds, up to its await.  A       *)
(* method's arguments are JSON values; a.x is the argument named x.        *)

Lit(s) == JStr(<<s>>)

\* f"{x}" inside a URL
Format(x) ==
    CASE x.t = "str" -> x.v
      [] x.t = "int" -> <<"<int>">>
      [] x.t = "bool" -> <<"<bool>">>
      [] x.t = "null" -> <<"None">>
      [] OTHER -> <<"<repr>">>

DefaultPageSize == 100
DefaultEmoji == Lit("<page-facing-up>")

\* list_databases, were it to ask for ten results
list_databases_requestTen(self, a) ==
    Returned(Request(self.headers, "POST", self.base_url \o <<"/search">>,
        JDict(("filter" :> JDict(("property" :> Lit("object")) @@ ("value" :> Lit("database"))))
           @@ ("page_size" :> JInt(10))
           @@ ("sort" :> JDict(("direction" :> Lit("descending"))
                            @@ ("timestamp" :> Lit("last_edited_time"))))),
        Null))

list_databases_request(self, a) ==
    Returned(Request(self.headers, "POST", self.base_url \o <<"/search">>,
        JDict(("filter" :> JDict(("property" :> Lit("object")) @@ ("value" :> Lit("database"))))
           @@ ("page_size" :> JInt(100))
           @@ ("sort" :> JDict(("direction" :> Lit("descending"))
                            @@ ("timestamp" :> Lit("last_edited_time"))))),
        Null))

\* query_database, were it to test its optional arguments against None
query_database_requestNotNone(self, a) ==
    LET body == ("page_size" :> a.page_size)
             @@ Field(a.filter # Null, "filter", a.filter)
             @@ Field(a.sorts # Null, "sorts", a.sorts)
             @@ Field(a.start_cursor # Null, "start_cursor", a.start_cursor)
    IN  Returned(Request(self.headers, "POST",
            self.base_url \o <<"/databases/">> \o Format(a.database_id) \o <<"/query">>,
            JDict(body), Null))

query_database_request(self, a) ==
    LET body == ("page_size" :> a.page_size)
             @@ Field(Truthy(a.filter), "filter", a.filter)
             @@ Field(Truthy(a.sorts), "sorts", a.sorts)
             @@ Field(Truthy(a.start_cursor), "start_cursor", a.start_cursor)
    IN  Returned(Request(self.headers, "POST",
            self.base_url \o <<"/databases/">> \o Format(a.database_id) \o <<"/query">>,
            JDict(body), Null))

create_page_request(self, a) ==
    LET body == ("parent" :> JDict("database_id" :> a.parent_id))
             @@ ("properties" :> a.properties)
             @@ Field(Truthy(a.children), "children", a.children)
    IN  Returned(Request(self.headers, "POST", self.base_url \o <<"/pages">>, JDict(body), Null))

\* update_page, were it to test archived for truth
update_page_requestTruthy(self, a) ==
    LET body == ("properties" :> a.properties)
             @@ Field(Truthy(a.archived), "archived", a.archived)
    IN  Returned(Request(self.headers, "PATCH", self.base_url \o <<"/pages/">> \o Format(a.page_id),
            JDict(body), Null))

update_page_request(self, a) ==
    LET body == ("properties" :> a.properties)
             @@ Field(a.archived # Null, "archived", a.archived)
    IN  Returned(Request(self.headers, "PATCH", self.base_url \o <<"/pages/">> \o Format(a.page_id),
            JDict(body), Null))

\* the icon sent, were the default glyph given only to an icon with no
\* "emoji" key
SentIconMissingOnly(icon) ==
    IF Get(icon.v, "type") = Lit("emoji") /\ "emoji" \notin DOMAIN icon.v
    THEN JDict(("emoji" :> DefaultEmoji) @@ icon.v)
    ELSE icon

\* the icon create_database sends: an emoji icon whose glyph is empty or
\* missing gets the default glyph
SentIcon(icon) ==
    IF Get(icon.v, "type") = Lit("emoji") /\ ~Truthy(Get(icon.v, "emoji"))
    THEN JDict(("emoji" :> DefaultEmoji) @@ icon.v)
    ELSE icon

create_database_request(self, a) ==
    IF a.parent_id.t # "str" THEN Raised(Exc("AttributeError"))
    ELSE IF Truthy(a.icon) /\ a.icon.t # "dict" THEN Raised(Exc("AttributeError"))
    ELSE
    LET parent_id == JStr(Normalize(a.parent_id.v))
        body == ("parent" :> JDict(("type" :> Lit("page_id")) @@ ("page_id" :> parent_id)))
             @@ ("title" :> a.title)
             @@ ("properties" :> a.properties)
             @@ Field(Truthy(a.icon), "icon", SentIcon(a.icon))
             @@ Field(Truthy(a.cover), "cover", a.cover)
    IN  Returned(Request(self.headers, "POST", self.base_url \o <<"/databases">>, JDict(body), Null))

\* update_database, were it to test its optional arguments for truth
update_database_requestTruthy(self, a) ==
    LET body == Field(Truthy(a.title), "title", a.title)
             @@ Field(Truthy(a.description), "description", a.description)
             @@ Field(Truthy(a.properties), "properties", a.properties)
    IN  Returned(Request(self.headers, "PATCH",
            self.base_url \o <<"/databases/">> \o Format(a.database_id),
            JDict(body), Null))

update_database_request(self, a) ==
    LET body == Field(a.title # Null, "title", a.title)
             @@ Field(a.description # Null, "description", a.description)
             @@ Field(a.properties # Null, "properties", a.properties)
    IN  Returned(Request(self.headers, "PATCH", self.base_url \o <<"/databases/">> \o Format(a.database_id),
            JDict(body), Null))

get_page_request(self, a) ==
    IF a.page_id.t # "str" THEN Raised(Exc("AttributeError"))
    ELSE Returned(Request(self.headers, "GET", self.base_url \o <<"/pages/">> \o Normalize(a.page_id.v),
            Null, Null))

get_block_children_request(self, a) ==
    IF a.block_id.t # "str" THEN Raised(Exc("AttributeError"))
    ELSE
    LET params == ("page_size" :> a.page_size)
               @@ Field(Truthy(a.start_cursor), "start_cursor", a.start_cursor)
    IN  Returned(Request(self.headers, "GET",
            self.base_url \o <<"/blocks/">> \o Normalize(a.block_id.v) \o <<"/children">>,
            Null, JDict(params)))

append_block_children_request(self, a) ==
    IF a.block_id.t # "str" THEN Raised(Exc("AttributeError"))
    ELSE IF Truthy(a.after) /\ a.after.t # "str" THEN Raised(Exc("AttributeError"))
    ELSE IF a.children.t \notin {"list", "dict", "str"} THEN Raised(Exc("TypeError"))
    ELSE
    LET body == ("children" :> a.children)
             @@ Field(Truthy(a.after), "after", JStr(Normalize(a.after.v)))
    IN  Returned(Request(self.headers, "PATCH",
            self.base_url \o <<"/blocks/">> \o Normalize(a.block_id.v) \o <<"/children">>,
            JDict(body), Null))

\* the key under which update_block sends the content: the block type
TypeKey(block_type) == block_type.v[1]

update_block_request(self, a) ==
    IF a.block_id.t # "str" THEN Raised(Exc("AttributeError"))
    ELSE IF a.block_type.t \in {"list", "dict"} THEN Raised(Exc("TypeError"))
    ELSE
    LET key == IF a.block_type.t = "str" THEN TypeKey(a.block_type) ELSE Format(a.block_type)[1]
        body == Field(a.archived # Null, "archived", a.archived)
             @@ (key :> a.content)
    IN  Returned(Request(self.headers, "PATCH", self.base_url \o <<"/blocks/">> \o Normalize(a.block_id.v),
            JDict(body), Null))

get_block_request(self, a) ==
    IF a.block_id.t # "str" THEN Raised(Exc("AttributeError"))
    ELSE Returned(Request(self.headers, "GET", self.base_url \o <<"/blocks/">> \o Normalize(a.block_id.v),
            Null, Null))

search_request(self, a) ==
    LET body == ("query" :> a.query)
             @@ ("page_size" :> a.page_size)
             @@ Field(Truthy(a.filter), "filter", a.filter)
             @@ Field(Truthy(a.sort), "sort", a.sort)
             @@ Field(Truthy(a.start_cursor), "start_cursor", a.start_cursor)
    IN  Returned(Request(self.headers, "POST", self.base_url \o <<"/search">>, JDict(body), Null))

ClientRequest(self, op, a) ==
    CASE op = "list_databases" -> list_databases_request(self, a)
      [] op = "query_database" -> query_database_request(self, a)
      [] op = "create_page" -> create_page_request(self, a)
      [] op = "update_page" -> update_page_request(self, a)
      [] op = "create_database" -> create_database_request(self, a)
      [] op = "update_database" -> update_database_request(self, a)
      [] op = "get_page" -> get_page_request(self, a)
      [] op = "get_block_children" -> get_block_children_request(self, a)
      [] op = "append_block_children" -> append_block_children_request(self, a)
      [] op = "update_block" -> update_block_request(self, a)
      [] op = "get_block" -> get_block_request(self, a)
      [] op = "search" -> search_request(self, a)

-----------------------------------------------------------------------------
(* NotionClient: what each method does with the response, after its await *)

\* [Model(**x) for x in items]: the first failure raises
RECURSIVE ConstructAll(_, _)
ConstructAll(model, items) ==
    IF items = <<>> THEN Returned(<<>>)
    ELSE LET head == Construct(model, items[1])
         IN  IF ~head.ok THEN head
             ELSE LET rest == ConstructAll(model, Tail(items))
                  IN  IF ~rest.ok THEN rest ELSE Returned(<<head.val>> \o rest.val)

\* list_databases, lines 48-51
DecodeDatabases(data) ==
    IF data.t # "dict" THEN Raised(Exc("AttributeError"))
    ELSE IF ~Truthy(Get(data.v, "results")) THEN Returned(<<>>)
    ELSE IF Get(data.v, "results").t # "list" THEN Raised(Exc("TypeError"))
    ELSE ConstructAll("Database", data.v["results"].v)

\* the loop of search, were it to refuse an element of another kind
RECURSIVE SearchLoopStrict(_)
SearchLoopStrict(items) ==
    IF items = <<>> THEN Returned(<<>>)
    ELSE LET item == items[1]
             rest == SearchLoopStrict(Tail(items))
         IN  IF item.t # "dict" THEN Raised(Exc("TypeError"))
             ELSE IF "object" \notin DOMAIN item.v THEN Raised(Exc("KeyError"))
             ELSE IF item.v["object"] \notin {"database", "page"}
                  THEN Raised(Exc("ValueError"))
             ELSE LET d == Construct(IF item.v["object"] = "page" THEN "Page" ELSE "Database",
                                     item)
                  IN  IF ~d.ok THEN d
                      ELSE IF ~rest.ok THEN rest
                      ELSE Returned(<<d.val>> \o rest.val)

\* the loop of search, lines 404-410: one element at a time, by its own "object"
RECURSIVE SearchLoop(_)
SearchLoop(items) ==
    IF items = <<>> THEN Returned(<<>>)
    ELSE LET item == items[1]
             rest == SearchLoop(Tail(items))
         IN  IF item.t # "dict" THEN Raised(Exc("TypeError"))
             ELSE IF "object" \notin DOMAIN item.v THEN Raised(Exc("KeyError"))
             ELSE IF item.v["object"] = "database"
                  THEN LET d == Construct("Database", item)
                       IN  IF ~d.ok THEN d
                           ELSE IF ~rest.ok THEN rest
                           ELSE Returned(<<d.val>> \o rest.val)
             ELSE IF item.v["object"] = "page"
                  THEN LET p == Construct("Page", item)
                       IN  IF ~p.ok THEN p
                           ELSE IF ~rest.ok THEN rest
                           ELSE Returned(<<p.val>> \o rest.val)
             ELSE rest

\* SearchResults(object="list", results=..., next_cursor=..., has_more=...)
MakeSearchResults(results, next_cursor, has_more) ==
    IF next_cursor.t \notin {"null", "str"} \/ has_more.t # "bool"
    THEN Raised(Exc("ValidationError"))
    ELSE Returned([model |-> "SearchResults", results |-> results,
                   next_cursor |-> next_cursor, has_more |-> has_more.v])

\* search, lines 401-417
DecodeSearch(data) ==
    IF data.t # "dict" THEN Raised(Exc("AttributeError"))
    ELSE LET raw == GetDefault(data.v, "results", JList(<<>>))
         IN  IF raw.t # "list" THEN Raised(Exc("TypeError"))
             ELSE LET r == SearchLoop(raw.v)
                  IN  IF ~r.ok THEN r
                      ELSE MakeSearchResults(r.val, Get(data.v, "next_cursor"),
                                             GetDefault(data.v, "has_more", JBool(FALSE)))

RawOps == {"query_database", "get_block_children", "append_block_children",
           "update_block", "get_block"}
PageOps == {"create_page", "update_page", "get_page"}
DatabaseOps == {"create_database", "update_database"}
ClientOps == RawOps \cup PageOps \cup DatabaseOps \cup {"list_databases", "search"}

\* the value a method returns, or the exception it raises, for a response
ClientDecode(op, resp, url) ==
    LET j == ResponseJson(resp, url)
    IN  IF ~j.ok THEN j
        ELSE CASE op \in RawOps -> Returned(j.val)
               [] op \in PageOps -> Construct("Page", j.val)
               [] op \in DatabaseOps -> Construct("Database", j.val)
               [] op = "list_databases" -> DecodeDatabases(j.val)
               [] op = "search" -> DecodeSearch(j.val)

-----------------------------------------------------------------------------
(* The remote service: the responses and transport failures it can answer  *)
(* a request with.                                                         *)

JsonBody(data) == [isjson |-> TRUE, data |-> data]
NotJsonBody == [isjson |-> FALSE, data |-> Null]

Entity(object, id, fits) == JDict(("object" :> object) @@ ("id" :> id) @@ ("fits" :> fits))

\* raw elements of a result list: well-formed pages and databases, a page and
\* a database that fail validation, elements of another kind, and an element
\* with no "object" key
Elements ==
    {Entity("page", 1, "Page"), Entity("page", 2, "Page"),
     Entity("database", 1, "Database"),
     Entity("page", 3, "none"), Entity("database", 3, "Page"),
     Entity("user", 1, "none"),
     JDict(("id" :> 4) @@ ("fits" :> "none"))}

ElementLists == UNION {[1..n -> Elements] : n \in 0..MaxResults}

Paginations ==
    {EmptyMap,
     ("has_more" :> JBool(TRUE)) @@ ("next_cursor" :> JStr(<<"c">>)),
     ("has_more" :> Null) @@ ("next_cursor" :> Null)}

ListData ==
    {JDict(("results" :> JList(q)) @@ p) : q \in ElementLists, p \in Paginations}
    \cup {JDict(p) : p \in Paginations}
    \cup {JDict("results" :> Null)}

\* what an operation that hands the response through may get
RawData ==
    {JDict(EmptyMap),
     JDict("results" :> JList(<<>>)),
     JDict(("results" :> JList(<<Entity("page", 1, "Page")>>))
           @@ ("has_more" :> JBool(TRUE)) @@ ("next_cursor" :> JStr(<<"c">>))),
     JDict(("results" :> JList(<<Entity("user", 1, "none")>>))
           @@ ("has_more" :> JBool(FALSE)) @@ ("next_cursor" :> Null))}

EntityData == Elements \cup {JDict(EmptyMap)}

DataFor(op) ==
    CASE op \in {"list_databases", "search"} -> ListData
      [] op \in PageOps \cup DatabaseOps -> EntityData
      [] OTHER -> RawData

ErrorBody == JsonBody(JDict("object" :> "error"))

Response(status, body) == [net |-> "ok", status |-> status, body |-> body]
TransportFailure == [net |-> "failed", status |-> 0, body |-> NotJsonBody]
NoResponse == [net |-> "none", status |-> 0, body |-> NotJsonBody]

ResponsesFor(op) ==
    {Response(200, JsonBody(d)) : d \in DataFor(op) \cup {Null}}
    \cup {Response(200, NotJsonBody), Response(204, NotJsonBody)}
    \cup {Response(st, b) : st \in {400, 404, 500}, b \in {ErrorBody, NotJsonBody}}

-----------------------------------------------------------------------------
(* Direct invocations of the NotionClient methods, with arguments of the   *)
(* declared types.                                                         *)

IdValues == {JStr(s) : s \in Ids}
Cursors == {Null, JStr(<<>>), JStr(<<"c">>)}
Filters == {Null, JDict(EmptyMap), JDict("property" :> Lit("object"))}
SortLists == {Null, JList(<<>>), JList(<<JDict("direction" :> Lit("ascending"))>>)}
PropertyMaps == {JDict(EmptyMap), JDict("Name" :> JDict(EmptyMap))}
RichTexts == {JList(<<>>), JList(<<JDict("type" :> Lit("text"))>>)}
Blocks == {JDict("type" :> Lit("paragraph")), JDict("type" :> Lit("divider"))}
Icons ==
    {Null, JDict(EmptyMap),
     JDict("type" :> Lit("emoji")),
     JDict(("type" :> Lit("emoji")) @@ ("emoji" :> JStr(<<>>))),
     JDict(("type" :> Lit("emoji")) @@ ("emoji" :> Lit("x"))),
     JDict(("type" :> Lit("external")) @@ ("external" :> JDict(EmptyMap)))}
Covers == {Null, JDict("type" :> Lit("external"))}
Archiveds == {Null, JBool(TRUE), JBool(FALSE)}
BlockTypes == {Lit("paragraph"), Lit("to_do")}

Pending == [ok |-> FALSE, val |-> Null, exc |-> NoExc]

ClientIdle ==
    /\ client = NotionClient(ApiKey)
    /\ cpc = "idle"
    /\ cop = "none"
    /\ cargs = EmptyMap
    /\ cresp = NoResponse
    /\ cresult = Pending
    /\ sent = <<>>

\* the attributes of the instance once a method has run up to its await: no
\* method assigns to self
\* a client that kept the method last called among its headers
SelfAfterMarksHeaders(self, op, a) ==
    [self EXCEPT !.headers = [self.headers EXCEPT !.ContentType = op]]

SelfAfter(self, op, a) == self

\* a method runs up to its await: it sends its request, or raises before
ClientStart(op, a) ==
    /\ cpc = "idle"
    /\ client' = SelfAfter(client, op, a)
    /\ LET r == ClientRequest(client, op, a)
       IN  /\ cop' = op
           /\ cargs' = a
           /\ cresp' = NoResponse
           /\ IF r.ok
              THEN /\ sent' = Append(sent, r.val)
                   /\ cpc' = "waiting"
                   /\ cresult' = Pending
              ELSE /\ sent' = sent
                   /\ cpc' = "done"
                   /\ cresult' = r

ClientCall(op, a) ==
    /\ spc = "idle"
    /\ ClientStart(op, a)
    /\ UNCHANGED notClient

\* Every identifier is tried with the default of the other arguments, and
\* every combination of the other arguments with the identifiers of at most
\* one character.
Tried(id, others, defaults) == Len(id.v) <= 1 \/ others = defaults

Call_list_databases == ClientCall("list_databases", EmptyMap)

Call_query_database ==
    /\ cpc = "idle"
    /\ \E id \in IdValues, f \in Filters, s \in SortLists, c \in Cursors,
       n \in {JInt(DefaultPageSize), JInt(10)} :
        /\ Tried(id, <<f, s, c, n>>, <<Null, Null, Null, JInt(DefaultPageSize)>>)
        /\ ClientCall("query_database",
            [database_id |-> id, filter |-> f, sorts |-> s, start_cursor |-> c, page_size |-> n])

Call_create_page ==
    /\ cpc = "idle"
    /\ \E id \in IdValues, p \in PropertyMaps,
       ch \in {Null, JList(<<>>)} \cup {JList(<<b>>) : b \in Blocks} :
        /\ Tried(id, <<p, ch>>, <<JDict("Name" :> JDict(EmptyMap)), Null>>)
        /\ ClientCall("create_page", [parent_id |-> id, properties |-> p, children |-> ch])

Call_update_page ==
    /\ cpc = "idle"
    /\ \E id \in IdValues, p \in PropertyMaps, ar \in Archiveds :
        /\ Tried(id, <<p, ar>>, <<JDict("Name" :> JDict(EmptyMap)), Null>>)
        /\ ClientCall("update_page", [page_id |-> id, properties |-> p, archived |-> ar])

Call_create_database ==
    /\ cpc = "idle"
    /\ \E id \in IdValues, p \in PropertyMaps, i \in Icons, c \in Covers :
        /\ Tried(id, <<p, i, c>>, <<JDict("Name" :> JDict(EmptyMap)), Null, Null>>)
        /\ ClientCall("create_database",
            [parent_id |-> id, title |-> JList(<<JDict("type" :> Lit("text"))>>),
             properties |-> p, icon |-> i, cover |-> c])

Call_update_database ==
    /\ cpc = "idle"
    /\ \E id \in IdValues, ti \in RichTexts \cup {Null}, de \in RichTexts \cup {Null},
       p \in PropertyMaps \cup {Null} :
        /\ Tried(id, <<ti, de, p>>, <<Null, Null, Null>>)
        /\ ClientCall("update_database",
            [database_id |-> id, title |-> ti, description |-> de, properties |-> p])

Call_get_page == cpc = "idle" /\ \E id \in IdValues : ClientCall("get_page", [page_id |-> id])

Call_get_block_children ==
    /\ cpc = "idle"
    /\ \E id \in IdValues, c \in Cursors, n \in {JInt(DefaultPageSize), JInt(10)} :
        /\ Tried(id, <<c, n>>, <<Null, JInt(DefaultPageSize)>>)
        /\ ClientCall("get_block_children",
            [block_id |-> id, start_cursor |-> c, page_size |-> n])

Call_append_block_children ==
    /\ cpc = "idle"
    /\ \E id \in IdValues, af \in IdValues \cup {Null},
       ch \in {JList(<<b>>) : b \in Blocks} \cup {JList(<<b, c>>) : b, c \in Blocks} :
        /\ Tried(id, <<ch>>, <<JList(<<JDict("type" :> Lit("paragraph"))>>)>>)
        /\ af # Null => Tried(af, <<id, ch>>,
                              <<JStr(<<>>), JList(<<JDict("type" :> Lit("paragraph"))>>)>>)
        /\ ClientCall("append_block_children", [block_id |-> id, children |-> ch, after |-> af])

Call_update_block ==
    /\ cpc = "idle"
    /\ \E id \in IdValues, bt \in BlockTypes, co \in PropertyMaps, ar \in Archiveds :
        /\ Tried(id, <<bt, co, ar>>, <<Lit("paragraph"), JDict("Name" :> JDict(EmptyMap)), Null>>)
        /\ ClientCall("update_block",
            [block_id |-> id, block_type |-> bt, content |-> co, archived |-> ar])

Call_get_block == cpc = "idle" /\ \E id \in IdValues : ClientCall("get_block", [block_id |-> id])

Call_search ==
    /\ cpc = "idle"
    /\ \E q \in {JStr(<<>>), Lit("q")}, f \in {Null, JDict("property" :> Lit("object"))},
       so \in {Null, JDict("direction" :> Lit("ascending"))}, c \in {Null, JStr(<<"c">>)} :
        ClientCall("search",
            [query |-> q, filter |-> f, sort |-> so, start_cursor |-> c,
             page_size |-> JInt(DefaultPageSize)])

\* the requests a method sends once it has its response: none, pass or fail
FollowUpRequests(op, req, resp) == <<>>

\* the awaited exchange ends with a response: the method returns or raises
ClientReceive ==
    /\ cpc = "waiting"
    /\ \E resp \in ResponsesFor(cop) :
        /\ cresp' = resp
        /\ cresult' = ClientDecode(cop, resp, sent[Len(sent)].url)
        /\ sent' = sent \o FollowUpRequests(cop, sent[Len(sent)], resp)
    /\ cpc' = "done"
    /\ UNCHANGED <<client, cop, cargs>>
    /\ UNCHANGED notClient

\* the awaited exchange ends with a transport failure (httpx.TransportError)
ClientTransportFailure ==
    /\ cpc = "waiting"
    /\ cresp' = TransportFailure
    /\ cresult' = Raised(Exc("TransportError"))
    /\ cpc' = "done"
    /\ UNCHANGED <<client, cop, cargs, sent>>
    /\ UNCHANGED notClient

\* the client keeps nothing of an invocation
ClientForgets ==
    /\ client' = client
    /\ cpc' = "idle"
    /\ cop' = "none"
    /\ cargs' = EmptyMap
    /\ cresp' = NoResponse
    /\ cresult' = Pending
    /\ sent' = <<>>

\* the caller has the outcome
ClientReturn ==
    /\ spc = "idle"
    /\ cpc = "done"
    /\ ClientForgets
    /\ UNCHANGED notClient

ClientNext ==
    \/ Call_list_databases
    \/ Call_query_database
    \/ Call_create_page
    \/ Call_update_page
    \/ Call_create_database
    \/ Call_update_database
    \/ Call_get_page
    \/ Call_get_block_children
    \/ Call_append_block_children
    \/ Call_update_block
    \/ Call_get_block
    \/ Call_search
    \/ ClientReceive
    \/ ClientTransportFailure
    \/ ClientReturn


-----------------------------------------------------------------------------
(* Properties of the NotionClient methods, under ClientSpec *)

NoDash(s) == \A i \in 1..Len(s) : s[i] # "-"
Is2xx(status) == status >= 200 /\ status <= 299

\* C3: every NotionClient method sends exactly one HTTP request per
\* invocation, whether the response is 2xx or not; on a non-2xx response it
\* fails with an error carrying the response's status code and body, and it
\* never sends a second request.
C3_OneRequestNoRetry ==
    /\ cpc = "idle" => sent = <<>>
    /\ cpc \in {"waiting", "done"} => Len(sent) = 1
    /\ (cpc = "done" /\ cresp.net = "ok" /\ ~Is2xx(cresp.status)) =>
            /\ ~cresult.ok
            /\ cresult.exc.kind = "HTTPStatusError"
            /\ cresult.exc.status = cresp.status
            /\ cresult.exc.body = cresp.body

C3_Witness ==
    /\ cpc = "done"
    /\ cop = "search"
    /\ cresp.net = "ok" /\ cresp.status = 404
    /\ Len(sent) = 1
    /\ cresult.exc.status = 404

\* C4: in every request a method sends, the identifier in the request path
\* or body holds no '-', whatever form the caller supplied.
C4_NoSeparatorInRequest ==
    \A i \in 1..Len(sent) :
        /\ NoDash(sent[i].url)
        /\ cop = "create_page" => NoDash(sent[i].json.v["parent"].v["database_id"].v)
        /\ cop = "create_database" => NoDash(sent[i].json.v["parent"].v["page_id"].v)
        /\ (cop = "append_block_children" /\ "after" \in DOMAIN sent[i].json.v)
                => NoDash(sent[i].json.v["after"].v)

\* the methods that normalize their identifier, and the argument that holds it
NormalizingOps == {"get_page", "get_block", "get_block_children",
                   "append_block_children", "update_block", "create_database"}
IdParam(op) ==
    CASE op = "get_page" -> "page_id"
      [] op = "create_database" -> "parent_id"
      [] OTHER -> "block_id"

\* x and y are the same characters once the separators are left out
RECURSIVE SameButSeparators(_, _)
SameButSeparators(x, y) ==
    IF x # <<>> /\ Head(x) = "-" THEN SameButSeparators(Tail(x), y)
    ELSE IF y # <<>> /\ Head(y) = "-" THEN SameButSeparators(x, Tail(y))
    ELSE IF x = <<>> \/ y = <<>> THEN x = <<>> /\ y = <<>>
    ELSE Head(x) = Head(y) /\ SameButSeparators(Tail(x), Tail(y))

\* C5: normalizing an identifier twice gives what normalizing it once gives;
\* identifiers that differ only in separators normalize to the same value,
\* and get_page, get_block, get_block_children, append_block_children,
\* update_block and create_database build the same request for them.
C5_NormalizeIdempotent ==
    (cpc = "waiting" /\ cop \in NormalizingOps) =>
        LET x == cargs[IdParam(cop)].v
        IN  /\ Normalize(Normalize(x)) = Normalize(x)
            /\ \A y \in Ids :
                SameButSeparators(x, y) =>
                    /\ Normalize(y) = Normalize(x)
                    /\ ClientRequest(client, cop, [cargs EXCEPT ![IdParam(cop)] = JStr(y)]).val = sent[1]

C5_Witness ==
    /\ cpc = "waiting"
    /\ cop = "append_block_children"
    /\ cargs.block_id = JStr(<<"a", "-", "b">>)
    /\ sent[1] = ClientRequest(client, cop, [cargs EXCEPT !.block_id = JStr(<<"a", "b">>)]).val

\* the decoded form of a raw element that search keeps
Kept(e) ==
    [model |-> IF e.v["object"] = "database" THEN "Database" ELSE "Page",
     object |-> e.v["object"], id |-> e.v["id"]]

RECURSIVE KeptOf(_)
KeptOf(items) ==
    IF items = <<>> THEN <<>>
    ELSE IF items[1].v["object"] \in {"page", "database"}
         THEN <<Kept(items[1])>> \o KeptOf(Tail(items))
         ELSE KeptOf(Tail(items))

\* the response is one search can decode: every element carries its
\* discriminator, the pages and databases among them are well-formed, and
\* the pagination fields have their types
Decodable(data) ==
    /\ data.t = "dict"
    /\ "results" \in DOMAIN data.v => data.v["results"].t = "list"
    /\ \A i \in 1..Len(GetDefault(data.v, "results", JList(<<>>)).v) :
          LET e == data.v["results"].v[i]
          IN  /\ "object" \in DOMAIN e.v
              /\ e.v["object"] = "page" => e.v["fits"] = "Page"
              /\ e.v["object"] = "database" => e.v["fits"] = "Database"
    /\ Get(data.v, "next_cursor").t \in {"null", "str"}
    /\ GetDefault(data.v, "has_more", JBool(FALSE)).t = "bool"

\* C9: search drops every element whose discriminator is neither "page" nor
\* "database" without raising, and returns the other elements in the order
\* of the response, none added, duplicated or reordered.
C9_SearchDropsUnknownKeepsOrder ==
    (cpc = "done" /\ cop = "search" /\ cresp.net = "ok" /\ Is2xx(cresp.status)
        /\ cresp.body.isjson) =>
        LET data == cresp.body.data
        IN  /\ Decodable(data) => cresult.ok
            /\ cresult.ok =>
                cresult.val.results = KeptOf(GetDefault(data.v, "results", JList(<<>>)).v)

C9_Witness ==
    /\ cpc = "done" /\ cop = "search" /\ cresult.ok
    /\ "results" \in DOMAIN cresp.body.data.v
    /\ cresp.body.data.v["results"].v =
          <<Entity("user", 1, "none"), Entity("page", 2, "Page")>>
    /\ cresult.val.results = <<[model |-> "Page", object |-> "page", id |-> 2]>>

-----------------------------------------------------------------------------
(* The markdown renderer (models/notion.py).  A rendered string is the     *)
(* sequence of its characters.                                             *)

NL == "\n"
\* the backquote character, which a TLA+ string cannot hold
Tick == "<backquote>"

\* f"{open}{text}{close}" when the flag is set
Wrap(flag, open, text, close) == IF Truthy(flag) THEN open \o text \o close ELSE text

\* a mapping together with the order its keys were inserted in, which
\* iteration over a Python dict follows and lookup by key does not
KeyOrdered(f, keys) == [t |-> "dict", v |-> f, keys |-> keys]

Marker(k) ==
    CASE k = "bold" -> <<"*", "*">>
      [] k = "italic" -> <<"*">>
      [] k = "strikethrough" -> <<"~", "~">>
      [] k = "code" -> <<Tick>>

RECURSIVE WrapInOrder(_, _, _)
WrapInOrder(f, keys, text) ==
    IF keys = <<>> THEN text
    ELSE WrapInOrder(f, Tail(keys), Wrap(f[Head(keys)], Marker(Head(keys)), text, Marker(Head(keys))))

\* the text of one run, were the annotations applied by iterating over the map
RunMarkdownInKeyOrder(rt) ==
    IF rt.t # "dict" THEN Raised(Exc("AttributeError"))
    ELSE LET text == GetDefault(rt.v, "text", JDict(EmptyMap))
             annotations == GetDefault(rt.v, "annotations", JDict(EmptyMap))
         IN  IF text.t # "dict" THEN Raised(Exc("AttributeError"))
             ELSE IF annotations.t # "dict" THEN Raised(Exc("AttributeError"))
             ELSE LET t0 == GetDefault(text.v, "content", JStr(<<>>)).v
                      t1 == Wrap(Get(annotations.v, "bold"), <<"*", "*">>, t0, <<"*", "*">>)
                      t2 == Wrap(Get(annotations.v, "italic"), <<"*">>, t1, <<"*">>)
                      t3 == Wrap(Get(annotations.v, "strikethrough"), <<"~", "~">>, t2, <<"~", "~">>)
                      t4 == IF "keys" \in DOMAIN annotations
                            THEN WrapInOrder(annotations.v, annotations.keys, t0)
                            ELSE Wrap(Get(annotations.v, "code"), <<Tick>>, t3, <<Tick>>)
                      t5 == Wrap(Get(rt.v, "href"), <<"[">>, t4,
                                 <<"]", "(">> \o Format(Get(rt.v, "href")) \o <<")">>)
                  IN  Returned(t5)

\* the body of the loop of rich_text_to_markdown, lines 75-88: the text of one run
RunMarkdown(rt) ==
    IF rt.t # "dict" THEN Raised(Exc("AttributeError"))
    ELSE LET text == GetDefault(rt.v, "text", JDict(EmptyMap))
             annotations == GetDefault(rt.v, "annotations", JDict(EmptyMap))
         IN  IF text.t # "dict" THEN Raised(Exc("AttributeError"))
             ELSE IF annotations.t # "dict" THEN Raised(Exc("AttributeError"))
             ELSE LET t0 == GetDefault(text.v, "content", JStr(<<>>)).v
                      t1 == Wrap(Get(annotations.v, "bold"), <<"*", "*">>, t0, <<"*", "*">>)
                      t2 == Wrap(Get(annotations.v, "italic"), <<"*">>, t1, <<"*">>)
                      t3 == Wrap(Get(annotations.v, "strikethrough"), <<"~", "~">>, t2, <<"~", "~">>)
                      t4 == Wrap(Get(annotations.v, "code"), <<Tick>>, t3, <<Tick>>)
                      t5 == Wrap(Get(rt.v, "href"), <<"[">>, t4,
                                 <<"]", "(">> \o Format(Get(rt.v, "href")) \o <<")">>)
                  IN  Returned(t5)

\* rich_text_to_markdown, lines 73-92: the runs' texts, concatenated
RECURSIVE rich_text_to_markdown(_)
rich_text_to_markdown(rich_text_list) ==
    IF rich_text_list.t # "list" THEN Raised(Exc("TypeError"))
    ELSE IF rich_text_list.v = <<>> THEN Returned(<<>>)
    ELSE LET head == RunMarkdown(rich_text_list.v[1])
         IN  IF ~head.ok THEN head
             ELSE LET rest == rich_text_to_markdown(JList(Tail(rich_text_list.v)))
                  IN  IF ~rest.ok THEN rest ELSE Returned(head.val \o rest.val)

\* the dispatch of block_to_markdown, lines 111-135
BlockText(block_type, content, text) ==
    CASE block_type = Lit("paragraph") -> text \o <<NL, NL>>
      [] block_type = Lit("heading_1") -> <<"#", " ">> \o text \o <<NL, NL>>
      [] block_type = Lit("heading_2") -> <<"#", "#", " ">> \o text \o <<NL, NL>>
      [] block_type = Lit("heading_3") -> <<"#", "#", "#", " ">> \o text \o <<NL, NL>>
      [] block_type = Lit("bulleted_list_item") -> <<"*", " ">> \o text \o <<NL>>
      [] block_type = Lit("numbered_list_item") -> <<"1", ".", " ">> \o text \o <<NL>>
      [] block_type = Lit("to_do") ->
            (IF Truthy(GetDefault(content.v, "checked", JBool(FALSE)))
             THEN <<"[", "x", "]">> ELSE <<"[", " ", "]">>) \o <<" ">> \o text \o <<NL>>
      [] block_type = Lit("code") ->
            <<Tick, Tick, Tick>> \o Format(GetDefault(content.v, "language", JStr(<<>>)))
                \o <<NL>> \o text \o <<NL, Tick, Tick, Tick, NL, NL>>
      [] block_type = Lit("quote") -> <<">", " ">> \o text \o <<NL, NL>>
      [] block_type = Lit("divider") -> <<"-", "-", "-", NL, NL>>
      [] OTHER -> text \o <<NL, NL>>

\* block_to_markdown, lines 103-135
block_to_markdown(block) ==
    IF block.t # "dict" THEN Raised(Exc("AttributeError"))
    ELSE LET block_type == Get(block.v, "type")
         IN  IF ~Truthy(block_type) THEN Returned(<<>>)
             ELSE IF block_type.t \in {"list", "dict"} THEN Raised(Exc("TypeError"))
             ELSE LET content == IF block_type.t = "str"
                                 THEN GetDefault(block.v, TypeKey(block_type), JDict(EmptyMap))
                                 ELSE JDict(EmptyMap)
                  IN  IF content.t # "dict" THEN Raised(Exc("AttributeError"))
                      ELSE LET text == rich_text_to_markdown(
                                           GetDefault(content.v, "rich_text", JList(<<>>)))
                           IN  IF ~text.ok THEN text
                               ELSE Returned(BlockText(block_type, content, text.val))

-----------------------------------------------------------------------------
(* Applications of the renderer *)

Flags == {"bold", "italic", "strikethrough", "code"}

\* annotation maps: the flags that are set, the others either false or absent
AnnotationMaps ==
    {[k \in Flags |-> JBool(k \in S)] : S \in SUBSET Flags}
    \cup {[k \in S |-> JBool(TRUE)] : S \in SUBSET Flags}

TextOf(content) == "text" :> JDict("content" :> JStr(content))

Hrefs == {EmptyMap, "href" :> Null, "href" :> JStr(<<"u">>)}

AnnotatedRuns ==
    {JDict(TextOf(<<"x">>) @@ ("annotations" :> JDict(m)) @@ h) : m \in AnnotationMaps, h \in Hrefs}

\* the orders the keys of a map may have been inserted in
KeyOrders(S) ==
    {o \in [1..Cardinality(S) -> S] : \A i, j \in 1..Cardinality(S) : o[i] = o[j] => i = j}

\* the same run with its annotation keys in the given order
InKeyOrder(run, o) ==
    JDict([run.v EXCEPT !["annotations"] = KeyOrdered(run.v["annotations"].v, o)])

\* annotated runs as decoded from JSON, the annotation keys in any order
KeyOrderedRuns ==
    UNION {{InKeyOrder(r, o) : o \in KeyOrders(DOMAIN r.v["annotations"].v)} : r \in AnnotatedRuns}

PlainRun == JDict(TextOf(<<"x">>))
FancyRun ==
    JDict(TextOf(<<"y">>) @@ ("href" :> JStr(<<"u">>))
          @@ ("annotations" :> JDict(("bold" :> JBool(TRUE)) @@ ("strikethrough" :> JBool(TRUE)))))
NullAnnotationsRun == JDict(TextOf(<<"x">>) @@ ("annotations" :> Null))
NullTextRun == JDict("text" :> Null)

OddRuns == {PlainRun, NullAnnotationsRun, NullTextRun, JDict(EmptyMap), Null}
BlockRuns == {PlainRun, FancyRun, NullAnnotationsRun, JDict(EmptyMap)}

RunLists == UNION {[1..n -> BlockRuns] : n \in 0..MaxRuns}

RecognizedTypes ==
    {"paragraph", "heading_1", "heading_2", "heading_3", "bulleted_list_item",
     "numbered_list_item", "to_do", "code", "quote", "divider"}

TypeEntries ==
    {"type" :> Lit(ty) : ty \in RecognizedTypes \cup {"callout"}}
    \cup {EmptyMap, "type" :> Null, "type" :> JStr(<<>>), "type" :> JInt(7),
          "type" :> JList(<<Lit("paragraph")>>)}

\* the fields a payload holds beside its rich text
Extras(ty) ==
    CASE ty = Lit("to_do") -> {EmptyMap, "checked" :> JBool(TRUE), "checked" :> JBool(FALSE)}
      [] ty = Lit("code") -> {EmptyMap, "language" :> JStr(<<"p", "y">>)}
      [] OTHER -> {EmptyMap}

Payloads(ty) ==
    {Null}
    \cup {JDict(rt @@ ex) :
            rt \in {EmptyMap, "rich_text" :> Null} \cup {"rich_text" :> JList(q) : q \in RunLists},
            ex \in Extras(ty)}

RenderBlocks ==
    {JDict(te) : te \in TypeEntries}
    \cup UNION {{JDict(te @@ (TypeKey(te["type"]) :> pl)) : pl \in Payloads(te["type"])} :
                  te \in {e \in TypeEntries : Get(e, "type").t = "str" /\ Truthy(Get(e, "type"))}}

RenderIdle ==
    /\ rfn = "none"
    /\ rin = Null
    /\ rout = Pending

Render_rich_text_to_markdown ==
    /\ rfn = "none"
    /\ \E q \in {JList(<<r>>) : r \in AnnotatedRuns \cup OddRuns \cup KeyOrderedRuns}
                \cup {JList(l) : l \in RunLists} :
        /\ rin' = q
        /\ rout' = rich_text_to_markdown(q)
    /\ rfn' = "rich_text_to_markdown"
    /\ UNCHANGED notRender

Render_block_to_markdown ==
    /\ rfn = "none"
    /\ \E b \in RenderBlocks :
        /\ rin' = b
        /\ rout' = block_to_markdown(b)
    /\ rfn' = "block_to_markdown"
    /\ UNCHANGED notRender

RenderReturn ==
    /\ rfn # "none"
    /\ rfn' = "none"
    /\ rin' = Null
    /\ rout' = Pending
    /\ UNCHANGED notRender

RenderNext ==
    \/ Render_rich_text_to_markdown
    \/ Render_block_to_markdown
    \/ RenderReturn

-----------------------------------------------------------------------------
(* PropertyValue (models/notion.py, lines 25-36) and its construction from *)
(* raw JSON by pydantic.                                                   *)

\* the variant fields, lines 29-36
Kinds == {"title", "rich_text", "select", "multi_select", "url", "checkbox", "number", "date"}

\* RichText, lines 17-23: type and text are required
IsRichText(x) ==
    /\ x.t = "dict"
    /\ Get(x.v, "type").t = "str"
    /\ Get(x.v, "text").t = "dict"
    /\ Get(x.v, "annotations").t \in {"null", "dict"}
    /\ Get(x.v, "plain_text").t \in {"null", "str"}
    /\ Get(x.v, "href").t \in {"null", "str"}

\* the declared type of each variant field admits the value
FieldAdmits(k, x) ==
    CASE k \in {"title", "rich_text"} ->
            x.t = "list" /\ \A i \in 1..Len(x.v) : IsRichText(x.v[i])
      [] k \in {"select", "date"} -> x.t = "dict"
      [] k = "multi_select" -> x.t = "list" /\ \A i \in 1..Len(x.v) : x.v[i].t = "dict"
      [] k = "url" -> x.t = "str"
      [] k = "checkbox" -> x.t = "bool"
      [] k = "number" -> x.t \in {"int", "float"}

\* RichText(**x): the five declared fields, the optional ones None by
\* default; keys that are not fields are ignored
DecodeRichText(x) ==
    JDict([f \in {"type", "text", "annotations", "plain_text", "href"} |-> Get(x.v, f)])

\* the value a variant field holds for the raw value x: rich texts become
\* RichText instances, a number becomes a float
DecodeField(k, x) ==
    CASE k \in {"title", "rich_text"} -> JList([i \in 1..Len(x.v) |-> DecodeRichText(x.v[i])])
      [] k = "number" -> JFloat(x.v)
      [] OTHER -> x

\* the fields of a PropertyValue: id and type are required strings, every
\* variant field is optional and, when given, of its declared type
PropertyValueFields(raw) ==
    /\ Get(raw.v, "id").t = "str"
    /\ Get(raw.v, "type").t = "str"
    /\ \A k \in Kinds : Get(raw.v, k) # Null => FieldAdmits(k, raw.v[k])

\* PropertyValue(**raw)
DecodePropertyValue(raw) ==
    IF raw.t # "dict" THEN Raised(Exc("TypeError"))
    ELSE IF ~PropertyValueFields(raw) THEN Raised(Exc("ValidationError"))
    ELSE Returned([model |-> "PropertyValue", id |-> raw.v["id"], type |-> raw.v["type"],
                   fields |-> [k \in Kinds |->
                                 IF Get(raw.v, k) = Null THEN Null
                                 ELSE DecodeField(k, raw.v[k])]])

\* serialisation that leaves out every field whose value is falsy
DumpTruthyOnly(pv) ==
    LET kept == {k \in Kinds :
                    /\ pv.fields[k] # Null
                    /\ IF pv.fields[k].t = "float" THEN pv.fields[k].v # 0
                       ELSE Truthy(pv.fields[k])}
    IN  JDict(("id" :> pv.id) @@ ("type" :> pv.type) @@ [k \in kept |-> pv.fields[k]])

\* model_dump_json() of a PropertyValue, read back as JSON: every declared
\* field is written, None as null
DumpPropertyValue(pv) ==
    JDict(("id" :> pv.id) @@ ("type" :> pv.type) @@ [k \in Kinds |-> pv.fields[k]])

SomeRichText == JList(<<JDict(("type" :> Lit("text")) @@ TextOf(<<"t">>))>>)

\* a value of the declared type of each variant field
ValueOf(k) ==
    CASE k \in {"title", "rich_text"} -> SomeRichText
      [] k = "select" -> JDict("name" :> Lit("A"))
      [] k = "date" -> JDict("start" :> Lit("2024-01-01"))
      [] k = "multi_select" -> JList(<<JDict("name" :> Lit("A"))>>)
      [] k = "url" -> Lit("https://example.com")
      [] k = "checkbox" -> JBool(TRUE)
      [] k = "number" -> JInt(1)

\* an empty value of the declared type of each variant field
EmptyOf(k) ==
    CASE k \in {"title", "rich_text", "multi_select"} -> JList(<<>>)
      [] k \in {"select", "date"} -> JDict(EmptyMap)
      [] k = "url" -> JStr(<<>>)
      [] k = "checkbox" -> JBool(FALSE)
      [] k = "number" -> JInt(0)

\* a value no declared type of a variant field admits
IllTyped(k) == IF k \in {"select", "date"} THEN Lit("w") ELSE JDict(EmptyMap)

RawKinds == Kinds \cup {"formula"}

RawProperties ==
    {JDict(("id" :> Lit("p")) @@ ("type" :> Lit(ty)) @@ [k \in F |-> ValueOf(k)]) :
        ty \in RawKinds, F \in {G \in SUBSET Kinds : Cardinality(G) <= MaxVariants}}
    \cup {JDict(("id" :> Lit("p")) @@ ("type" :> Lit(k)) @@ (k :> IllTyped(k))) : k \in Kinds}
    \cup {JDict(("id" :> Lit("p")) @@ ("type" :> Lit(k)) @@ (k :> Null)) : k \in Kinds}
    \cup {JDict(("id" :> Lit("p")) @@ ("type" :> Lit(k)) @@ (k :> EmptyOf(k))) : k \in Kinds}
    \cup {JDict(("type" :> Lit(k)) @@ (k :> ValueOf(k))) : k \in Kinds}
    \cup {JDict(("id" :> Lit("p")) @@ (k :> ValueOf(k))) : k \in Kinds}
    \cup {JDict(("id" :> Lit("p")) @@ ("type" :> Null) @@ (k :> ValueOf(k))) : k \in Kinds}

DecodeIdle ==
    /\ dfn = "none"
    /\ din = Null
    /\ dout = Pending
    /\ dval = Null

Decode_PropertyValue ==
    /\ dfn = "none"
    /\ \E raw \in RawProperties :
        /\ din' = raw
        /\ dout' = DecodePropertyValue(raw)
    /\ dfn' = "PropertyValue"
    /\ dval' = Null
    /\ UNCHANGED notDecode

\* a PropertyValue that was constructed is serialised and constructed again
\* from the serialisation
Decode_RoundTrip ==
    /\ dfn = "none"
    /\ \E raw \in RawProperties :
        LET p == DecodePropertyValue(raw)
        IN  /\ p.ok
            /\ dval' = p.val
            /\ din' = DumpPropertyValue(p.val)
            /\ dout' = DecodePropertyValue(DumpPropertyValue(p.val))
    /\ dfn' = "round_trip"
    /\ UNCHANGED notDecode

DecodeReturn ==
    /\ dfn # "none"
    /\ dfn' = "none"
    /\ din' = Null
    /\ dout' = Pending
    /\ dval' = Null
    /\ UNCHANGED notDecode

DecodeNext ==
    \/ Decode_PropertyValue
    \/ Decode_RoundTrip
    \/ DecodeReturn

-----------------------------------------------------------------------------
(* The server (server.py): list_tools and call_tool *)

\* the tools list_tools declares, with the arguments each declares required
ToolNames ==
    {"list_databases", "get_page", "get_page_content", "append_page_content", "get_block",
     "update_block", "query_database", "create_page", "update_page", "search",
     "create_database", "update_database"}

Required(name) ==
    CASE name = "list_databases" -> {}
      [] name = "get_page" -> {"page_id"}
      [] name = "get_page_content" -> {"page_id"}
      [] name = "append_page_content" -> {"block_id", "children"}
      [] name = "get_block" -> {"block_id"}
      [] name = "update_block" -> {"block_id", "block_type", "content"}
      [] name = "query_database" -> {"database_id"}
      [] name = "create_page" -> {"database_id", "properties"}
      [] name = "update_page" -> {"page_id", "properties"}
      [] name = "search" -> {"query"}
      [] name = "create_database" -> {"parent_id", "title", "properties"}
      [] name = "update_database" -> {"database_id"}
      [] OTHER -> {}

\* the characters of a three-digit status code
Digit(n) == CASE n = 0 -> "0" [] n = 1 -> "1" [] n = 2 -> "2" [] n = 3 -> "3" [] n = 4 -> "4"
              [] n = 5 -> "5" [] n = 6 -> "6" [] n = 7 -> "7" [] n = 8 -> "8" [] n = 9 -> "9"
Digits(n) == <<Digit(n \div 100), Digit((n \div 10) % 10), Digit(n % 10)>>

\* str(e): an HTTPStatusError names the status code and the URL
Str(e) ==
    CASE e.kind = "HTTPStatusError" ->
            <<IF e.status >= 500 THEN "Server error '" ELSE "Client error '">>
            \o Digits(e.status) \o <<"' for url '">> \o e.url \o <<"'">>
      [] e.kind = "ValueError" -> e.msg
      [] OTHER -> <<"message of ", e.kind>>

\* needle in text
Contains(text, needle) ==
    \E i \in 1..(Len(text) - Len(needle) + 1) : SubSeq(text, i, i + Len(needle) - 1) = needle

\* TextContent(type="text", text=...): the characters of the text, and the
\* value whose JSON serialisation ends it, if any
NoDump == <<>>
Dump(x) == <<x>>
TextContent(text, dump) == [type |-> "text", text |-> text, dump |-> dump]

\* len(x)
PyLen(x) ==
    CASE x.t \in {"list", "str"} -> Returned(Len(x.v))
      [] x.t = "dict" -> Returned(Cardinality(DOMAIN x.v))
      [] OTHER -> Raised(Exc("TypeError"))

\* most blocks append_page_content takes
MaxBlocks == 100

\* [{"type": "text", "text": {"content": text, "link": None}}]
TitleOf(text) ==
    JList(<<JDict(("type" :> Lit("text"))
               @@ ("text" :> JDict(("content" :> text) @@ ("link" :> Null))))>>)

Invocation(op, a) == Returned([op |-> op, a |-> a])

\* call_tool up to the await of each branch: the client method it invokes and
\* the arguments it passes, or the exception it raises before
tool_list_databases(arguments) == Invocation("list_databases", EmptyMap)

tool_query_database(arguments) ==
    IF arguments.t # "dict" THEN Raised(ValueError(<<"Invalid arguments">>))
    ELSE IF ~Truthy(Get(arguments.v, "database_id"))
    THEN Raised(ValueError(<<"database_id is required">>))
    ELSE Invocation("query_database",
            [database_id |-> arguments.v["database_id"],
             filter |-> Get(arguments.v, "filter"),
             sorts |-> Get(arguments.v, "sorts"),
             start_cursor |-> Null, page_size |-> JInt(DefaultPageSize)])

tool_create_page(arguments) ==
    IF arguments.t # "dict" THEN Raised(ValueError(<<"Invalid arguments">>))
    ELSE IF ~Truthy(Get(arguments.v, "database_id")) \/ ~Truthy(Get(arguments.v, "properties"))
    THEN Raised(ValueError(<<"database_id and properties are required">>))
    ELSE Invocation("create_page",
            [parent_id |-> arguments.v["database_id"],
             properties |-> arguments.v["properties"],
             children |-> Get(arguments.v, "children")])

tool_update_page(arguments) ==
    IF arguments.t # "dict" THEN Raised(ValueError(<<"Invalid arguments">>))
    ELSE IF ~Truthy(Get(arguments.v, "page_id")) \/ ~Truthy(Get(arguments.v, "properties"))
    THEN Raised(ValueError(<<"page_id and properties are required">>))
    ELSE Invocation("update_page",
            [page_id |-> arguments.v["page_id"],
             properties |-> arguments.v["properties"],
             archived |-> Get(arguments.v, "archived")])

tool_get_page(arguments) ==
    IF arguments.t # "dict" THEN Raised(ValueError(<<"Invalid arguments">>))
    ELSE IF ~Truthy(Get(arguments.v, "page_id"))
    THEN Raised(ValueError(<<"page_id is required">>))
    ELSE Invocation("get_page", [page_id |-> arguments.v["page_id"]])

tool_get_page_content(arguments) ==
    IF arguments.t # "dict" THEN Raised(ValueError(<<"Invalid arguments">>))
    ELSE IF ~Truthy(Get(arguments.v, "page_id"))
    THEN Raised(ValueError(<<"page_id is required">>))
    ELSE Invocation("get_block_children",
            [block_id |-> arguments.v["page_id"],
             start_cursor |-> Get(arguments.v, "start_cursor"),
             page_size |-> GetDefault(arguments.v, "page_size", JInt(100))])

\* the append_page_content branch, were it to append the first MaxBlocks
\* children of a longer list
tool_append_page_contentTruncating(arguments) ==
    IF arguments.t # "dict" THEN Raised(ValueError(<<"Invalid arguments">>))
    ELSE IF ~Truthy(Get(arguments.v, "block_id")) \/ ~Truthy(Get(arguments.v, "children"))
    THEN Raised(ValueError(<<"block_id and children are required">>))
    ELSE LET n == PyLen(arguments.v["children"])
         IN  IF ~n.ok THEN n
             ELSE Invocation("append_block_children",
                    [block_id |-> arguments.v["block_id"],
                     children |-> IF n.val > MaxBlocks /\ arguments.v["children"].t = "list"
                                  THEN JList(SubSeq(arguments.v["children"].v, 1, MaxBlocks))
                                  ELSE arguments.v["children"],
                     after |-> Get(arguments.v, "after")])

tool_append_page_content(arguments) ==
    IF arguments.t # "dict" THEN Raised(ValueError(<<"Invalid arguments">>))
    ELSE IF ~Truthy(Get(arguments.v, "block_id")) \/ ~Truthy(Get(arguments.v, "children"))
    THEN Raised(ValueError(<<"block_id and children are required">>))
    ELSE LET n == PyLen(arguments.v["children"])
         IN  IF ~n.ok THEN n
             ELSE IF n.val > MaxBlocks
             THEN Raised(ValueError(
                    <<"Maximum of 100 blocks can be appended in a single request">>))
             ELSE Invocation("append_block_children",
                    [block_id |-> arguments.v["block_id"],
                     children |-> arguments.v["children"],
                     after |-> Get(arguments.v, "after")])

tool_search(arguments) ==
    IF arguments.t # "dict" THEN Raised(ValueError(<<"Invalid arguments">>))
    ELSE Invocation("search",
            [query |-> GetDefault(arguments.v, "query", JStr(<<>>)),
             filter |-> Get(arguments.v, "filter"),
             sort |-> Get(arguments.v, "sort"),
             start_cursor |-> Null, page_size |-> JInt(DefaultPageSize)])

\* the icon create_database is called with: call_tool fills in the glyph of
\* an emoji icon that has none
ToolIcon(icon) == IF Truthy(icon) /\ icon.t = "dict" THEN SentIcon(icon) ELSE icon

tool_create_database(arguments) ==
    IF arguments.t # "dict" THEN Raised(ValueError(<<"Invalid arguments">>))
    ELSE IF \/ ~Truthy(Get(arguments.v, "parent_id"))
            \/ ~Truthy(Get(arguments.v, "title"))
            \/ ~Truthy(Get(arguments.v, "properties"))
    THEN Raised(ValueError(<<"parent_id, title, and properties are required">>))
    ELSE Invocation("create_database",
            [parent_id |-> arguments.v["parent_id"],
             title |-> TitleOf(arguments.v["title"]),
             properties |-> arguments.v["properties"],
             icon |-> ToolIcon(Get(arguments.v, "icon")),
             cover |-> Get(arguments.v, "cover")])

\* title = None; if "title" in arguments and arguments["title"]: title = [...]
OptionalTitle(arguments, k) ==
    IF k \in DOMAIN arguments.v /\ Truthy(arguments.v[k]) THEN TitleOf(arguments.v[k]) ELSE Null

tool_update_database(arguments) ==
    IF arguments.t # "dict" THEN Raised(ValueError(<<"Invalid arguments">>))
    ELSE IF ~Truthy(Get(arguments.v, "database_id"))
    THEN Raised(ValueError(<<"database_id is required">>))
    ELSE Invocation("update_database",
            [database_id |-> arguments.v["database_id"],
             title |-> OptionalTitle(arguments, "title"),
             description |-> OptionalTitle(arguments, "description"),
             properties |-> Get(arguments.v, "properties")])

tool_get_block(arguments) ==
    IF arguments.t # "dict" THEN Raised(ValueError(<<"Invalid arguments">>))
    ELSE IF ~Truthy(Get(arguments.v, "block_id"))
    THEN Raised(ValueError(<<"block_id is required">>))
    ELSE Invocation("get_block", [block_id |-> arguments.v["block_id"]])

tool_update_block(arguments) ==
    IF arguments.t # "dict" THEN Raised(ValueError(<<"Invalid arguments">>))
    ELSE IF \/ ~Truthy(Get(arguments.v, "block_id"))
            \/ ~Truthy(Get(arguments.v, "block_type"))
            \/ ~Truthy(Get(arguments.v, "content"))
    THEN Raised(ValueError(<<"block_id, block_type, and content are required">>))
    ELSE Invocation("update_block",
            [block_id |-> arguments.v["block_id"],
             block_type |-> arguments.v["block_type"],
             content |-> arguments.v["content"],
             archived |-> Get(arguments.v, "archived")])

\* the if/elif chain on name
ToolInvocation(name, arguments) ==
    CASE name = "list_databases" -> tool_list_databases(arguments)
      [] name = "query_database" -> tool_query_database(arguments)
      [] name = "create_page" -> tool_create_page(arguments)
      [] name = "update_page" -> tool_update_page(arguments)
      [] name = "get_page" -> tool_get_page(arguments)
      [] name = "get_page_content" -> tool_get_page_content(arguments)
      [] name = "append_page_content" -> tool_append_page_content(arguments)
      [] name = "search" -> tool_search(arguments)
      [] name = "create_database" -> tool_create_database(arguments)
      [] name = "update_database" -> tool_update_database(arguments)
      [] name = "get_block" -> tool_get_block(arguments)
      [] name = "update_block" -> tool_update_block(arguments)
      [] OTHER -> Raised(ValueError(<<"Unknown tool: ", name>>))

\* SearchResults(results=items): every item is validated as a Database or a Page
RECURSIVE ValidateResults(_)
ValidateResults(items) ==
    IF items = <<>> THEN Returned(<<>>)
    ELSE LET item == items[1]
             rest == ValidateResults(Tail(items))
         IN  IF FitsModel(item, "Database")
             THEN IF ~rest.ok THEN rest
                  ELSE Returned(<<Instance("Database", item)>> \o rest.val)
             ELSE IF FitsModel(item, "Page")
             THEN IF ~rest.ok THEN rest
                  ELSE Returned(<<Instance("Page", item)>> \o rest.val)
             ELSE Raised(Exc("ValidationError"))

\* SearchResults(results=results["results"]) on what query_database returned
QueryResults(results) ==
    IF results.t # "dict" THEN Raised(Exc("TypeError"))
    ELSE IF "results" \notin DOMAIN results.v THEN Raised(Exc("KeyError"))
    ELSE IF results.v["results"].t # "list" THEN Raised(Exc("ValidationError"))
    ELSE LET r == ValidateResults(results.v["results"].v)
         IN  IF ~r.ok THEN r ELSE MakeSearchResults(r.val, Null, JBool(FALSE))

\* the branches that wrap their await in a try of their own
InnerTry == {"get_page", "get_page_content", "append_page_content", "create_database",
             "get_block", "update_block"}

BadRequestHelp(name) ==
    CASE name = "append_page_content" ->
            <<"Error 400: Bad Request. Common issues include:", NL,
              "1. Invalid block_id format", NL,
              "2. Invalid block structure in children", NL,
              "3. Block nesting too deep (max 2 levels)", NL,
              "4. Invalid 'after' block ID", NL, NL>>
      [] name = "update_block" ->
            <<"Error 400: Bad Request. Common issues include:", NL,
              "1. Invalid block_id format", NL,
              "2. Incorrect block_type", NL,
              "3. Invalid content structure for the block type", NL,
              "4. Trying to remove toggle from a heading with children", NL, NL>>
      [] name = "create_database" ->
            <<"Error 400: Bad Request. Common issues include:", NL,
              "1. Invalid parent_id format (should be 32 characters without dashes)", NL,
              "2. Missing required fields in properties", NL,
              "3. Invalid property configurations", NL, NL>>

NotFoundHelp(name) ==
    CASE name = "append_page_content" ->
            <<"Error 404: Not Found. The block ID doesn't exist or the integration doesn't have access to it.",
              NL, NL>>
      [] name = "update_block" ->
            <<"Error 404: Not Found. The block ID doesn't exist, has been archived, or the integration doesn't have access to it.",
              NL, NL>>

InnerPrefix(name) ==
    CASE name = "get_page" -> "Error retrieving page: "
      [] name = "get_page_content" -> "Error retrieving page content: "
      [] name = "append_page_content" -> "Error appending content: "
      [] name = "create_database" -> "Error: "
      [] name = "get_block" -> "Error retrieving block: "
      [] name = "update_block" -> "Error updating block: "

\* the except clause of a branch's own try
InnerHandler(name, arguments, e) ==
    LET error_msg == Str(e)
    IN  IF name \in {"append_page_content", "update_block", "create_database"}
           /\ Contains(error_msg, <<"4", "0", "0">>)
        THEN IF name = "create_database"
             THEN TextContent(
                    BadRequestHelp(name) \o <<"Original error: ">> \o error_msg
                    \o <<NL, NL, "Request data:", NL, "parent_id: ">>
                    \o Format(arguments.v["parent_id"])
                    \o <<NL, "title: ">> \o Format(arguments.v["title"])
                    \o <<NL, "properties: ">>,
                    Dump(arguments.v["properties"]))
             ELSE TextContent(BadRequestHelp(name) \o <<"Original error: ">> \o error_msg,
                              NoDump)
        ELSE IF name \in {"append_page_content", "update_block"}
                /\ Contains(error_msg, <<"4", "0", "4">>)
        THEN TextContent(NotFoundHelp(name) \o <<"Original error: ">> \o error_msg, NoDump)
        ELSE TextContent(<<InnerPrefix(name)>> \o error_msg, NoDump)

\* the text a branch returns for what the client method returned
Success(name, arguments, val) ==
    CASE name = "list_databases" ->
            Returned(TextContent(<<>>, Dump(MakeSearchResults(val, Null, JBool(FALSE)).val)))
      [] name = "query_database" ->
            LET r == QueryResults(val)
            IN  IF ~r.ok THEN r ELSE Returned(TextContent(<<>>, Dump(r.val)))
      [] name = "append_page_content" ->
            Returned(TextContent(
                <<"Successfully appended ", ToString(PyLen(arguments.v["children"]).val),
                  " blocks to ">>
                \o Format(arguments.v["block_id"])
                \o (IF Truthy(Get(arguments.v, "after"))
                    THEN <<" after block ">> \o Format(arguments.v["after"]) ELSE <<>>)
                \o <<NL, NL, "Response:", NL>>,
                Dump(val)))
      [] name = "update_block" ->
            Returned(TextContent(
                <<"Successfully updated block ">> \o Format(arguments.v["block_id"])
                \o <<NL, NL, "Response:", NL>>,
                Dump(val)))
      [] OTHER -> Returned(TextContent(<<>>, Dump(val)))

\* a branch from its await on: outcome is what the client method returned or
\* raised
ToolFinish(name, arguments, outcome) ==
    IF outcome.ok THEN Success(name, arguments, outcome.val)
    ELSE IF name \in InnerTry THEN Returned(InnerHandler(name, arguments, outcome.exc))
    ELSE outcome

\* the classes "except Exception" catches
ExceptionClasses ==
    {"ValueError", "TypeError", "KeyError", "AttributeError", "ValidationError",
     "HTTPStatusError", "TransportError", "JSONDecodeError"}

CatchesOnlyValueError(e) == e.kind = "ValueError"

\* except Exception as e
CatchesException(e) == e.kind \in ExceptionClasses

\* what call_tool hands back for the outcome of its try body
CallToolReturn(body) ==
    IF body.ok THEN body.val
    ELSE IF CatchesException(body.exc) THEN TextContent(<<"Error: ">> \o Str(body.exc), NoDump)
    ELSE [type |-> "exception", exc |-> body.exc]

NoResult == [type |-> "none"]

ErrorPrefixes ==
    {"Error: ", "Error 400: Bad Request. Common issues include:",
     "Error 404: Not Found. The block ID doesn't exist or the integration doesn't have access to it.",
     "Error 404: Not Found. The block ID doesn't exist, has been archived, or the integration doesn't have access to it."}
    \cup {InnerPrefix(name) : name \in InnerTry}

IsErrorText(r) == r.type = "text" /\ r.text # <<>> /\ r.text[1] \in ErrorPrefixes

-----------------------------------------------------------------------------
(* Tool calls: names and argument bags the dispatch loop may hand over *)

Absent == [t |-> "absent"]
Bag(f) == JDict([k \in {j \in DOMAIN f : f[j] # Absent} |-> f[k]])

NonMappings == {Null, JList(<<>>), Lit("x")}
ToolIds == {Absent, Null, JStr(<<>>), JStr(<<"a">>), JStr(<<"a", "-", "b">>), JInt(7),
            JStr(<<"4", "0", "0">>)}
ToolProperties == {Absent, JDict(EmptyMap), JDict("Name" :> JDict(EmptyMap))}
ToolTexts == {Absent, JStr(<<>>), Lit("T")}
ABlock == JDict("type" :> Lit("paragraph"))
BlockLists ==
    {Absent, JList(<<>>), JList(<<ABlock>>), JInt(5),
     JList([i \in 1..MaxBlocks |-> ABlock]), JList([i \in 1..(MaxBlocks + 1) |-> ABlock])}

ArgumentBags(name) ==
    NonMappings \cup
    CASE name = "query_database" ->
            {Bag([database_id |-> id, filter |-> f, sorts |-> s, start_cursor |-> c]) :
                id \in ToolIds, f \in {Absent, JDict("property" :> Lit("title"))},
                s \in {Absent, JList(<<JDict("direction" :> Lit("ascending"))>>)},
                c \in {Absent, JStr(<<"c">>)}}
      [] name = "create_page" ->
            {Bag([database_id |-> id, properties |-> p, children |-> ch]) :
                id \in ToolIds, p \in ToolProperties, ch \in {Absent, JList(<<ABlock>>)}}
      [] name = "update_page" ->
            {Bag([page_id |-> id, properties |-> p, archived |-> ar]) :
                id \in ToolIds, p \in ToolProperties,
                ar \in {Absent, JBool(TRUE), JBool(FALSE)}}
      [] name = "get_page" -> {Bag([page_id |-> id]) : id \in ToolIds}
      [] name = "get_page_content" ->
            {Bag([page_id |-> id, start_cursor |-> c, page_size |-> n]) :
                id \in ToolIds, c \in {Absent, JStr(<<"c">>)}, n \in {Absent, Null, JInt(10)}}
      [] name = "append_page_content" ->
            {Bag([block_id |-> id, children |-> ch, after |-> af]) :
                id \in ToolIds, ch \in BlockLists,
                af \in {Absent, JStr(<<"a", "-">>), JInt(7)}}
      [] name = "search" ->
            {Bag([query |-> q, filter |-> f, sort |-> so, start_cursor |-> c]) :
                q \in ToolTexts \cup {Null}, f \in {Absent, JDict("property" :> Lit("object"))},
                so \in {Absent, JDict("direction" :> Lit("ascending"))},
                c \in {Absent, JStr(<<"c">>)}}
      [] name = "create_database" ->
            {Bag([parent_id |-> id, title |-> ti, properties |-> p, icon |-> ic]) :
                id \in ToolIds, ti \in ToolTexts, p \in ToolProperties,
                ic \in {Absent, JDict("type" :> Lit("emoji")), Lit("x"),
                        JDict(("type" :> Lit("emoji")) @@ ("emoji" :> JStr(<<>>))),
                        JDict(("type" :> Lit("emoji")) @@ ("emoji" :> Lit("x")))}}
      [] name = "update_database" ->
            {Bag([database_id |-> id, title |-> ti, description |-> de, properties |-> p]) :
                id \in ToolIds, ti \in ToolTexts, de \in {Absent, JStr(<<>>), Lit("D")},
                p \in {Absent, JDict("Name" :> JDict(EmptyMap))}}
      [] name = "get_block" -> {Bag([block_id |-> id]) : id \in ToolIds}
      [] name = "update_block" ->
            {Bag([block_id |-> id, block_type |-> bt, content |-> co, archived |-> ar]) :
                id \in ToolIds, bt \in {Absent, JStr(<<>>), Lit("paragraph")},
                co \in ToolProperties, ar \in {Absent, JBool(TRUE)}}
      [] OTHER -> {JDict(EmptyMap)}

ServerIdle ==
    /\ spc = "idle"
    /\ sname = "none"
    /\ sarguments = Null
    /\ sresult = NoResult
    /\ serving = TRUE
    /\ failed = 0

\* call_tool returns, or lets an exception out, and the dispatch loop has it
Deliver(body) ==
    LET r == CallToolReturn(body)
    IN  /\ sresult' = r
        /\ spc' = "returned"
        /\ serving' = (serving /\ r.type = "text")

\* the dispatch loop calls call_tool, which runs up to its await
CallTool(name, arguments) ==
    /\ spc = "idle"
    /\ cpc = "idle"
    /\ serving
    /\ sname' = name
    /\ sarguments' = arguments
    /\ LET inv == ToolInvocation(name, arguments)
       IN  IF inv.ok
           THEN /\ ClientStart(inv.val.op, inv.val.a)
                /\ spc' = "awaiting"
                /\ UNCHANGED <<sresult, serving>>
           ELSE /\ Deliver(inv)
                /\ UNCHANGED cvars
    /\ UNCHANGED failed
    /\ UNCHANGED notServer

Tool(name) ==
    spc = "idle" /\ cpc = "idle" /\ \E arguments \in ArgumentBags(name) : CallTool(name, arguments)

Tool_list_databases == Tool("list_databases")
Tool_query_database == Tool("query_database")
Tool_create_page == Tool("create_page")
Tool_update_page == Tool("update_page")
Tool_get_page == Tool("get_page")
Tool_get_page_content == Tool("get_page_content")
Tool_append_page_content == Tool("append_page_content")
Tool_search == Tool("search")
Tool_create_database == Tool("create_database")
Tool_update_database == Tool("update_database")
Tool_get_block == Tool("get_block")
Tool_update_block == Tool("update_block")
Tool_unknown == spc = "idle" /\ cpc = "idle" /\ \E name \in {"delete_page", ""} : Tool(name)

\* the client method has returned or raised: call_tool runs to its end
ToolResume ==
    /\ spc = "awaiting"
    /\ cpc = "done"
    /\ Deliver(ToolFinish(sname, sarguments, cresult))
    /\ UNCHANGED <<sname, sarguments, failed>>
    /\ UNCHANGED cvars
    /\ UNCHANGED notServer

\* the dispatch loop sends the result and waits for the next call
ServerReply ==
    /\ spc = "returned"
    /\ spc' = "idle"
    /\ sname' = "none"
    /\ sarguments' = Null
    /\ sresult' = NoResult
    /\ failed' = IF IsErrorText(sresult) /\ failed < MaxFailures THEN failed + 1 ELSE failed
    /\ ClientForgets
    /\ UNCHANGED serving
    /\ UNCHANGED notServer

ServerNext ==
    \/ Tool_list_databases
    \/ Tool_query_database
    \/ Tool_create_page
    \/ Tool_update_page
    \/ Tool_get_page
    \/ Tool_get_page_content
    \/ Tool_append_page_content
    \/ Tool_search
    \/ Tool_create_database
    \/ Tool_update_database
    \/ Tool_get_block
    \/ Tool_update_block
    \/ Tool_unknown
    \/ ClientReceive
    \/ ClientTransportFailure
    \/ ToolResume
    \/ ServerReply

-----------------------------------------------------------------------------
(* Concurrent tool calls: the dispatch loop starts call_tool for a message  *)
(* without waiting for the calls before it, so invocations interleave at    *)
(* their awaits.  They share the module-level notion_client.  What one      *)
(* invocation holds is local to it: its name, its argument bag, the request *)
(* sent, the response, what the client method returned and its own result.  *)

Contexts == 1..MaxContexts

IdleCall ==
    [pc |-> "idle", name |-> "none", arguments |-> Null, sent |-> <<>>,
     resp |-> NoResponse, result |-> Pending, text |-> NoResult]

\* the calls that run side by side: one of each kind of client method, and
\* one that fails validation
ConcurrentCalls ==
    {<<"get_block", Bag([block_id |-> JStr(<<"a">>)])>>,
     <<"search", Bag([query |-> Lit("T")])>>,
     <<"update_page", Bag([page_id |-> JStr(<<"a", "-", "b">>),
                           properties |-> JDict("Name" :> JDict(EmptyMap)),
                           archived |-> JBool(FALSE)])>>,
     <<"create_database", Bag([parent_id |-> JStr(<<"a">>), title |-> Lit("T"),
                               properties |-> JDict("Name" :> JDict(EmptyMap)),
                               icon |-> JDict("type" :> Lit("emoji"))])>>,
     <<"get_page", Null>>}

\* the answers to them
ConcurrentResponses(op) ==
    ResponsesFor(op) \cap
        {Response(200, JsonBody(JDict("results" :> JList(<<>>)))),
         Response(200, JsonBody(Entity("page", 1, "Page"))),
         Response(200, JsonBody(JDict(EmptyMap))),
         Response(404, ErrorBody)}

\* call_tool runs in a free context up to its await
Context_Call ==
    \E i \in Contexts, c \in ConcurrentCalls :
    /\ calls[i].pc = "idle"
    /\ LET name == c[1]
           arguments == c[2]
           inv == ToolInvocation(name, arguments)
       IN  IF inv.ok
           THEN LET r == ClientRequest(client, inv.val.op, inv.val.a)
                IN  /\ client' = SelfAfter(client, inv.val.op, inv.val.a)
                    /\ calls' = [calls EXCEPT ![i] =
                            [pc |-> IF r.ok THEN "waiting" ELSE "done",
                             name |-> name, arguments |-> arguments,
                             sent |-> IF r.ok THEN <<r.val>> ELSE <<>>,
                             resp |-> NoResponse,
                             result |-> IF r.ok THEN Pending ELSE r,
                             text |-> NoResult]]
           ELSE /\ client' = client
                /\ calls' = [calls EXCEPT ![i] =
                            [IdleCall EXCEPT !.pc = "returned", !.name = name,
                                             !.arguments = arguments,
                                             !.text = CallToolReturn(inv)]]
    /\ UNCHANGED notCalls

\* the exchange awaited in a context ends: the client method returns or raises
Context_Receive ==
    \E i \in Contexts :
    /\ calls[i].pc = "waiting"
    /\ LET op == ToolInvocation(calls[i].name, calls[i].arguments).val.op
       IN  \E resp \in ConcurrentResponses(op) :
             calls' = [calls EXCEPT ![i].pc = "done", ![i].resp = resp,
                          ![i].result = ClientDecode(op, resp, calls[i].sent[1].url)]
    /\ UNCHANGED client
    /\ UNCHANGED notCalls

\* call_tool runs in a context from its await to its end
Context_Resume ==
    \E i \in Contexts :
    /\ calls[i].pc = "done"
    /\ calls' = [calls EXCEPT ![i].pc = "returned",
                  ![i].text = CallToolReturn(ToolFinish(calls[i].name, calls[i].arguments,
                                                        calls[i].result))]
    /\ UNCHANGED client
    /\ UNCHANGED notCalls

\* the result of a context is sent; the context is free for the next message
Context_Reply ==
    \E i \in Contexts :
    /\ calls[i].pc = "returned"
    /\ calls' = [calls EXCEPT ![i] = IdleCall]
    /\ UNCHANGED client
    /\ UNCHANGED notCalls

ConcurrentIdle == calls = [i \in Contexts |-> IdleCall]

ConcurrentNext ==
    \/ Context_Call
    \/ Context_Receive
    \/ Context_Resume
    \/ Context_Reply

-----------------------------------------------------------------------------
(* The specifications *)

Idle == ClientIdle /\ RenderIdle /\ DecodeIdle /\ ServerIdle /\ ConcurrentIdle

ClientSpec == Idle /\ [][ClientNext]_vars
RenderSpec == Idle /\ [][RenderNext]_vars
DecodeSpec == Idle /\ [][DecodeNext]_vars
Spec == Idle /\ [][ServerNext]_vars

\* the client's methods called directly or through call_tool, one invocation
\* at a time: a direct call runs while call_tool is idle, and call_tool
\* starts when no direct call is running
SystemNext ==
    \/ spc = "idle" /\ ClientNext
    \/ (spc # "idle" \/ cpc = "idle") /\ ServerNext

SystemSpec == Idle /\ [][SystemNext]_vars
ConcurrentSpec == Idle /\ [][ConcurrentNext]_vars

\* the arguments among ks that the caller gave a value
Supplied(a, ks) == {k \in ks : a[k] # Null}
NonEmpty(a, ks) == {k \in ks : Truthy(a[k])}

\* C12: the body update_database sends holds exactly the fields among title,
\* description and properties that the caller supplied, each with the
\* caller's value: an empty list or mapping is sent, an omitted field is not,
\* and with all three omitted the body is the empty object.
C12_UpdateDatabaseBody ==
    (cop = "update_database" /\ cpc \in {"waiting", "done"}) =>
        LET body == sent[1].json.v
            given == Supplied(cargs, {"title", "description", "properties"})
        IN  /\ DOMAIN body = given
            /\ \A k \in given : body[k] = cargs[k]

C12_Witness ==
    /\ cop = "update_database" /\ cpc = "waiting"
    /\ cargs.title = JList(<<>>) /\ cargs.description = Null
    /\ cargs.properties = JDict(EmptyMap)
    /\ sent[1].json = JDict(("title" :> JList(<<>>)) @@ ("properties" :> JDict(EmptyMap)))

C12_WitnessEmptyBody ==
    /\ cop = "update_database" /\ cpc = "waiting"
    /\ Supplied(cargs, {"title", "description", "properties"}) = {}
    /\ sent[1].json = JDict(EmptyMap)

\* C15: the body query_database posts always holds page_size, and holds
\* filter, sorts and start_cursor exactly when the argument is non-empty; the
\* method returns the decoded response as it is, pagination fields included.
C15_QueryDatabaseBodyAndResult ==
    (cop = "query_database" /\ cpc \in {"waiting", "done"}) =>
        LET body == sent[1].json.v
            given == NonEmpty(cargs, {"filter", "sorts", "start_cursor"})
        IN  /\ sent[1].method = "POST"
            /\ DOMAIN body = {"page_size"} \cup given
            /\ body["page_size"] = cargs.page_size
            /\ \A k \in given : body[k] = cargs[k]
            /\ (cpc = "done" /\ cresp.net = "ok" /\ Is2xx(cresp.status) /\ cresp.body.isjson) =>
                    cresult.ok /\ cresult.val = cresp.body.data

C15_Witness ==
    /\ cop = "query_database" /\ cpc = "done"
    /\ cargs.filter = JDict(EmptyMap) /\ cargs.sorts # Null /\ Truthy(cargs.sorts)
    /\ DOMAIN sent[1].json.v = {"page_size", "sorts"}
    /\ cresult.ok /\ cresult.val.t = "dict"
    /\ {"results", "next_cursor"} \subseteq DOMAIN cresult.val.v
    /\ cresult.val.v["results"].v = <<Entity("page", 1, "Page")>>

\* C18: every request a method sends carries the bearer credential given at
\* construction and the fixed API version; the instance keeps both.
C18_CredentialAndVersion ==
    /\ client.headers.Authorization = <<"Bearer ">> \o ApiKey
    /\ client.headers.NotionVersion = "2022-06-28"
    /\ \A i \in 1..Len(sent) :
        /\ sent[i].headers.Authorization = <<"Bearer ">> \o ApiKey
        /\ sent[i].headers.NotionVersion = "2022-06-28"

C18_Witness ==
    /\ cop = "update_block" /\ cpc = "waiting"
    /\ Len(sent) = 1
    /\ sent[1].headers.Authorization = <<"Bearer ", "secret">>
    /\ sent[1].headers.NotionVersion = "2022-06-28"

\* the databases of a raw result list, in its order
AsDatabases(items) == [i \in 1..Len(items) |-> Instance("Database", items[i])]

C19_WitnessNoResults ==
    /\ cop = "list_databases" /\ cpc = "done"
    /\ cresp.net = "ok" /\ cresp.status = 200 /\ cresp.body.isjson
    /\ cresp.body.data = JDict(EmptyMap)
    /\ cresult.ok /\ cresult.val = <<>>

-----------------------------------------------------------------------------
(* Properties of the client's methods called directly or through call_tool, *)
(* under SystemSpec                                                         *)

\* the value the caller gave for the argument k of the method: the method's
\* own argument, or the entry of the tool's argument bag it is taken from
Given(k, entry) == IF spc = "idle" THEN cargs[k] ELSE Get(sarguments.v, entry)

\* C13: the body update_page sends always holds properties, and holds
\* archived exactly when the caller supplied it: false is sent as false, an
\* unspecified archived is absent; the same through the update_page tool.
C13_UpdatePageBody ==
    (cop = "update_page" /\ cpc \in {"waiting", "done"}) =>
        LET body == sent[1].json.v
            archived == Given("archived", "archived")
        IN  /\ "properties" \in DOMAIN body
            /\ body["properties"] = Given("properties", "properties")
            /\ DOMAIN body = {"properties"} \cup (IF archived # Null THEN {"archived"} ELSE {})
            /\ archived # Null => body["archived"] = archived

\* through the tool, archived false
C13_Witness ==
    /\ spc = "awaiting" /\ sname = "update_page" /\ cpc = "waiting"
    /\ Get(sarguments.v, "archived") = JBool(FALSE)
    /\ sent[1].json.v["archived"] = JBool(FALSE)

\* a direct call, archived unspecified
C13_WitnessUnspecified ==
    /\ spc = "idle" /\ cop = "update_page" /\ cpc = "waiting"
    /\ cargs.archived = Null
    /\ DOMAIN sent[1].json.v = {"properties"}

IsEmojiIcon(icon) == icon.t = "dict" /\ Get(icon.v, "type") = Lit("emoji")

\* C14: in every request create_database sends, an emoji icon has a
\* non-empty glyph: an icon supplied with an empty or missing glyph is sent
\* with the default glyph, an icon with a glyph or of another kind is sent
\* unchanged, and no icon is sent when none was supplied.
C14_EmojiIconHasGlyph ==
    (cop = "create_database" /\ Len(sent) = 1) =>
        LET body == sent[1].json.v
            icon == Given("icon", "icon")
        IN  /\ ("icon" \in DOMAIN body /\ IsEmojiIcon(body["icon"])) =>
                    /\ Get(body["icon"].v, "emoji").t = "str"
                    /\ Get(body["icon"].v, "emoji").v # <<>>
            /\ icon = Null => "icon" \notin DOMAIN body
            /\ (IsEmojiIcon(icon) /\ ~Truthy(Get(icon.v, "emoji"))) =>
                    /\ "icon" \in DOMAIN body
                    /\ body["icon"] = JDict(("emoji" :> DefaultEmoji) @@ icon.v)
            /\ (Truthy(icon) /\ ~(IsEmojiIcon(icon) /\ ~Truthy(Get(icon.v, "emoji")))) =>
                    /\ "icon" \in DOMAIN body
                    /\ body["icon"] = icon

\* a direct call with an empty glyph
C14_Witness ==
    /\ spc = "idle" /\ cop = "create_database" /\ cpc = "waiting"
    /\ cargs.icon = JDict(("type" :> Lit("emoji")) @@ ("emoji" :> JStr(<<>>)))
    /\ sent[1].json.v["icon"] = JDict(("type" :> Lit("emoji")) @@ ("emoji" :> DefaultEmoji))

\* through the tool, with no glyph
C14_WitnessTool ==
    /\ spc = "awaiting" /\ sname = "create_database" /\ cpc = "waiting"
    /\ Get(sarguments.v, "icon") = JDict("type" :> Lit("emoji"))
    /\ sent[1].json.v["icon"] = JDict(("type" :> Lit("emoji")) @@ ("emoji" :> DefaultEmoji))

-----------------------------------------------------------------------------
(* Properties of concurrent tool calls, under ConcurrentSpec *)

\* what the client method of a call returns or raises, from the call's own
\* arguments and response and the configuration the client was built with
OwnOutcome(c) ==
    LET inv == ToolInvocation(c.name, c.arguments)
        r == ClientRequest(NotionClient(ApiKey), inv.val.op, inv.val.a)
    IN  IF ~r.ok THEN r
        ELSE IF c.resp = NoResponse THEN Pending
        ELSE ClientDecode(inv.val.op, c.resp, r.val.url)

\* the request a call sends, from its own arguments and the configuration
\* the client was built with
OwnRequests(c) ==
    LET inv == ToolInvocation(c.name, c.arguments)
        r == ClientRequest(NotionClient(ApiKey), inv.val.op, inv.val.a)
    IN  IF inv.ok /\ r.ok THEN <<r.val>> ELSE <<>>

\* C16: under any interleaving of concurrent tool calls on the shared
\* client, the request a call sends and the result it returns are fixed by
\* the call's own arguments and its own response, and the client's
\* credential, base address and headers stay as constructed.
C16_CallsIndependent ==
    /\ client = NotionClient(ApiKey)
    /\ \A i \in Contexts :
         LET c == calls[i]
             inv == ToolInvocation(c.name, c.arguments)
         IN  /\ c.pc # "idle" => c.sent = OwnRequests(c)
             /\ (c.pc \in {"done", "returned"} /\ inv.ok) => c.result = OwnOutcome(c)
             /\ c.pc = "returned" =>
                    c.text = CallToolReturn(IF inv.ok
                                            THEN ToolFinish(c.name, c.arguments, OwnOutcome(c))
                                            ELSE inv)

\* two calls in flight at once: one has its response, the other is still
\* waiting for its own
C16_Witness ==
    /\ calls[1].pc = "returned" /\ calls[1].name = "create_database"
    /\ calls[1].resp.status = 404
    /\ calls[2].pc = "waiting" /\ calls[2].name = "update_page"
    /\ calls[2].sent[1].headers = NotionClient(ApiKey).headers

-----------------------------------------------------------------------------
(* Properties of call_tool, under Spec *)

\* the dispatch loop can hand call_tool a call
AcceptsCall == \E name \in ToolNames : Tool(name)

\* C1: whatever the tool name, the argument bag and the outcome of the client
\* call, call_tool returns a text result and no exception gets out to the
\* dispatch loop; after any number of failing calls the server still accepts
\* the next call.
C1_AlwaysTextNeverEscapes ==
    /\ serving
    /\ spc = "returned" => sresult.type = "text"
    /\ spc = "idle" => ENABLED AcceptsCall

\* after MaxFailures failing calls, a call whose response lacks the key
\* call_tool reads ends in an error text
C1_Witness ==
    /\ failed = MaxFailures
    /\ spc = "returned"
    /\ cresult.ok
    /\ IsErrorText(sresult)
    /\ sresult.text = <<"Error: ", "message of ", "KeyError">>

\* the argument bag is no mapping, or lacks an argument the tool declares required
MissingRequired(name, arguments) ==
    arguments.t # "dict" \/ \E k \in Required(name) : k \notin DOMAIN arguments.v

\* C2: for every tool that declares required arguments, a call whose argument
\* bag is not a mapping or lacks a required argument ends in a validation
\* failure with no HTTP request sent during the call.
C2_ValidationBeforeRequest ==
    (spc # "idle" /\ Required(sname) # {} /\ MissingRequired(sname, sarguments)) =>
        /\ spc = "returned"
        /\ IsErrorText(sresult)
        /\ sent = <<>>

\* text begins with prefix
StartsWith(text, prefix) ==
    Len(text) >= Len(prefix) /\ SubSeq(text, 1, Len(prefix)) = prefix

\* the client method of a branch with diagnostics has raised, and call_tool
\* has returned its text
DiagnosedFailure ==
    /\ spc = "returned"
    /\ sname \in {"append_page_content", "update_block", "create_database"}
    /\ cpc = "done"
    /\ ~cresult.ok
    /\ sresult.type = "text"

\* C17: for append_page_content, update_block and create_database the text
\* returned on failure names the class of the actual response: a 400
\* response gives the text listing the bad-request causes, a 404 response
\* (append_page_content, update_block) the text about an unknown, archived
\* or inaccessible identifier, any other failure the plain error text,
\* whatever the identifier.
C17_DiagnosticNamesActualFailure ==
    DiagnosedFailure =>
        LET e == cresult.exc
            status == IF e.kind = "HTTPStatusError" THEN e.status ELSE 0
        IN  IF status = 400
            THEN StartsWith(sresult.text, BadRequestHelp(sname))
            ELSE IF status = 404 /\ sname # "create_database"
            THEN StartsWith(sresult.text, NotFoundHelp(sname))
            ELSE sresult.text = <<InnerPrefix(sname)>> \o Str(e)

\* a tool call whose client method has sent its request
ToolRequestSent(name) ==
    /\ sname = name
    /\ spc \in {"awaiting", "returned"}
    /\ Len(sent) >= 1

\* C21: through the update_database tool, a title or description given as
\* a string, the empty string included, is in the request body, as the rich
\* text of that string: an empty one is sent and so can clear the field.
C21_EmptyTitleStillSent ==
    ToolRequestSent("update_database") =>
        \A k \in {"title", "description"} :
            (k \in DOMAIN sarguments.v /\ sarguments.v[k].t = "str") =>
                /\ k \in DOMAIN sent[1].json.v
                /\ sent[1].json.v[k] = TitleOf(sarguments.v[k])

\* where the request of a paginated tool carries its cursor: the query
\* string of get_page_content, the body of the others
CursorPart(name, request) ==
    IF name = "get_page_content" THEN request.params ELSE request.json

\* C22: a pagination cursor in the argument bag of the query_database,
\* search or get_page_content tool is in the one request the call sends,
\* unchanged, and no tool call sends a second request.
C22_CursorPassedThrough ==
    /\ spc # "idle" => Len(sent) <= 1
    /\ \A name \in {"query_database", "search", "get_page_content"} :
         (/\ ToolRequestSent(name)
          /\ "start_cursor" \in DOMAIN sarguments.v
          /\ sarguments.v["start_cursor"].t = "str"
          /\ sarguments.v["start_cursor"].v # <<>>) =>
            LET part == CursorPart(name, sent[1])
            IN  /\ part.t = "dict"
                /\ "start_cursor" \in DOMAIN part.v
                /\ part.v["start_cursor"] = sarguments.v["start_cursor"]

\* the tool has returned the serialisation of a SearchResults for the
\* response its client method decoded
ReportsResults(name) ==
    /\ sname = name
    /\ spc = "returned"
    /\ cpc = "done" /\ cresult.ok
    /\ cresp.body.isjson /\ cresp.body.data.t = "dict"
    /\ sresult.type = "text"
    /\ Len(sresult.dump) = 1
    /\ sresult.dump[1].model = "SearchResults"

\* C23: the text the query_database and list_databases tools return gives
\* the pagination state of the response received: its has_more and
\* next_cursor are those of the response.
C23_ReportsPaginationState ==
    \A name \in {"query_database", "list_databases"} :
        ReportsResults(name) =>
            /\ sresult.dump[1].next_cursor = Get(cresp.body.data.v, "next_cursor")
            /\ sresult.dump[1].has_more = Truthy(Get(cresp.body.data.v, "has_more"))

\* the argument bag is a mapping that holds a value for every argument the
\* tool declares required
AllRequiredPresent(name, arguments) ==
    /\ arguments.t = "dict"
    /\ \A k \in Required(name) : k \in DOMAIN arguments.v /\ arguments.v[k] # Null

\* the children of an append_page_content call are a list within the limit
\* of MaxBlocks
WithinBlockLimit(name, arguments) ==
    name = "append_page_content" =>
        /\ arguments.v["children"].t = "list"
        /\ Len(arguments.v["children"].v) <= MaxBlocks

\* C24: validation rejects a call only for an absent required argument: a
\* call to a known tool whose bag holds every required argument, be it with
\* an empty value, reaches the client method.
C24_EmptyRequiredForwarded ==
    (/\ spc # "idle"
     /\ sname \in ToolNames
     /\ AllRequiredPresent(sname, sarguments)
     /\ WithinBlockLimit(sname, sarguments)) =>
        /\ cpc # "idle"
        /\ cop # "none"

\* the children of the append_page_content call in progress, when the bag
\* holds a list of them
ChildrenGiven ==
    IF /\ sname = "append_page_content" /\ spc # "idle"
       /\ sarguments.t = "dict"
       /\ "children" \in DOMAIN sarguments.v
       /\ sarguments.v["children"].t = "list"
    THEN sarguments.v["children"].v
    ELSE <<>>

\* the bag names a block by a non-empty string, and the block to append
\* after, if any, by a string
AppendTargetUsable ==
    /\ "block_id" \in DOMAIN sarguments.v
    /\ sarguments.v["block_id"].t = "str"
    /\ sarguments.v["block_id"].v # <<>>
    /\ Get(sarguments.v, "after").t \in {"null", "str"}

\* C25: append_page_content never sends a request with more than MaxBlocks
\* blocks: with 1 to MaxBlocks children it sends one request holding those
\* children in their order; with more it returns an error text and sends
\* no request, not one with a prefix of the list either.
C25_AtMostMaxBlocksSent ==
    /\ (sname = "append_page_content" /\ spc # "idle") =>
            \A i \in 1..Len(sent) : PyLen(sent[i].json.v["children"]).val <= MaxBlocks
    /\ Len(ChildrenGiven) > MaxBlocks =>
            /\ spc = "returned"
            /\ IsErrorText(sresult)
            /\ sent = <<>>
    /\ (Len(ChildrenGiven) \in 1..MaxBlocks /\ AppendTargetUsable) =>
            /\ Len(sent) = 1
            /\ sent[1].json.v["children"] = JList(ChildrenGiven)

\* a call with exactly MaxBlocks children has sent them all
C25_Witness ==
    /\ spc = "awaiting"
    /\ Len(ChildrenGiven) = MaxBlocks
    /\ Len(sent) = 1
    /\ Len(sent[1].json.v["children"].v) = MaxBlocks

\* a call with one child too many has been refused
C25_WitnessRefused ==
    /\ spc = "returned"
    /\ Len(ChildrenGiven) = MaxBlocks + 1
    /\ IsErrorText(sresult)
    /\ sent = <<>>

-----------------------------------------------------------------------------
(* Properties of the renderer, under RenderSpec *)

\* a run the renderer can read: a mapping whose text and annotations, when
\* present, are mappings
WellFormedRun(r) ==
    /\ r.t = "dict"
    /\ GetDefault(r.v, "text", JDict(EmptyMap)).t = "dict"
    /\ GetDefault(r.v, "annotations", JDict(EmptyMap)).t = "dict"

ContentOf(r) ==
    GetDefault(GetDefault(r.v, "text", JDict(EmptyMap)).v, "content", JStr(<<>>)).v

IsSet(r, flag) == Get(GetDefault(r.v, "annotations", JDict(EmptyMap)).v, flag) = JBool(TRUE)
HasLink(r) == Get(r.v, "href").t = "str" /\ Get(r.v, "href").v # <<>>

\* one wrapper around a text, when the run asks for it
Wrapped(r, w, text) ==
    CASE w = "bold" -> IF IsSet(r, "bold") THEN <<"*", "*">> \o text \o <<"*", "*">> ELSE text
      [] w = "italic" -> IF IsSet(r, "italic") THEN <<"*">> \o text \o <<"*">> ELSE text
      [] w = "strikethrough" ->
            IF IsSet(r, "strikethrough") THEN <<"~", "~">> \o text \o <<"~", "~">> ELSE text
      [] w = "code" -> IF IsSet(r, "code") THEN <<Tick>> \o text \o <<Tick>> ELSE text
      [] w = "link" ->
            IF HasLink(r) THEN <<"[">> \o text \o <<"]", "(">> \o r.v["href"].v \o <<")">>
            ELSE text

\* the wrappers of order around a text, the first of order innermost
RECURSIVE Nested(_, _, _)
Nested(r, order, text) ==
    IF order = <<>> THEN text
    ELSE Nested(r, Tail(order), Wrapped(r, Head(order), text))

BoldOutermost == <<"link", "code", "strikethrough", "italic", "bold">>
BoldInnermost == <<"bold", "italic", "strikethrough", "code", "link">>

RECURSIVE RunsNested(_, _)
RunsNested(runs, order) ==
    IF runs = <<>> THEN <<>>
    ELSE Nested(runs[1], order, ContentOf(runs[1])) \o RunsNested(Tail(runs), order)

RenderedWellFormedRuns ==
    /\ rfn = "rich_text_to_markdown"
    /\ rin.t = "list"
    /\ \A i \in 1..Len(rin.v) : WellFormedRun(rin.v[i])

\* C6: the markers of a run nest bold outside italic outside strikethrough
\* outside code span outside link, bold outermost and link innermost; an
\* annotation that is absent or false contributes no marker.
C6_BoldOutermostLinkInnermost ==
    RenderedWellFormedRuns => rout.ok /\ rout.val = RunsNested(rin.v, BoldOutermost)

IsRecognized(b) ==
    /\ b.t = "dict"
    /\ Get(b.v, "type").t = "str"
    /\ Len(Get(b.v, "type").v) = 1
    /\ TypeKey(b.v["type"]) \in RecognizedTypes

IsUnrecognized(b) ==
    /\ b.t = "dict"
    /\ Get(b.v, "type").t = "str"
    /\ Len(Get(b.v, "type").v) = 1
    /\ TypeKey(b.v["type"]) \notin RecognizedTypes

PayloadOf(b) == GetDefault(b.v, TypeKey(b.v["type"]), JDict(EmptyMap))
RunsOf(b) == GetDefault(PayloadOf(b).v, "rich_text", JList(<<>>))

\* C7: block_to_markdown returns a string for every block, whether its type
\* is recognized, unrecognized or missing, its payload present, absent or
\* null, its runs' annotations present or null, and never raises; for an
\* unrecognized type it returns the concatenated runs and two newlines.
C7_BlockToMarkdownTotal ==
    (rfn = "block_to_markdown" /\ rin.t = "dict" /\ Get(rin.v, "type").t \in {"null", "str"}) =>
        /\ rout.ok
        /\ IsUnrecognized(rin) =>
              rout.val = RunsNested(RunsOf(rin).v, BoldInnermost) \o <<NL, NL>>

\* a block of a recognized type whose payload, when present, is a mapping
\* and whose rich text, when present, is a list of readable runs
WellFormedBlock(b) ==
    /\ IsRecognized(b)
    /\ PayloadOf(b).t = "dict"
    /\ RunsOf(b).t = "list"
    /\ \A i \in 1..Len(RunsOf(b).v) : WellFormedRun(RunsOf(b).v[i])

Hashes(n) == [i \in 1..n |-> "#"]

\* what the table puts before and after the runs
Before(ty, payload) ==
    CASE ty = "heading_1" -> Hashes(1) \o <<" ">>
      [] ty = "heading_2" -> Hashes(2) \o <<" ">>
      [] ty = "heading_3" -> Hashes(3) \o <<" ">>
      [] ty = "bulleted_list_item" -> <<"*", " ">>
      [] ty = "numbered_list_item" -> <<"1", ".", " ">>
      [] ty = "to_do" ->
            IF Get(payload.v, "checked") = JBool(TRUE)
            THEN <<"[", "x", "]", " ">> ELSE <<"[", " ", "]", " ">>
      [] ty = "code" ->
            <<Tick, Tick, Tick>> \o GetDefault(payload.v, "language", JStr(<<>>)).v \o <<NL>>
      [] ty = "quote" -> <<">", " ">>
      [] OTHER -> <<>>

After(ty) ==
    CASE ty \in {"bulleted_list_item", "numbered_list_item", "to_do"} -> <<NL>>
      [] ty = "code" -> <<NL, Tick, Tick, Tick, NL, NL>>
      [] OTHER -> <<NL, NL>>

\* C8: for a block of a recognized type, block_to_markdown returns what the
\* dispatch table gives: the prefix of the type, the runs and the ending of
\* the type; for a divider, '---' and two newlines whatever rich text its
\* payload holds.
C8_DispatchTable ==
    (rfn = "block_to_markdown" /\ IsRecognized(rin)) =>
        LET ty == TypeKey(rin.v["type"])
        IN  /\ (ty = "divider" /\ PayloadOf(rin).t = "dict") =>
                    rout.ok /\ rout.val = <<"-", "-", "-", NL, NL>>
            /\ (ty # "divider" /\ WellFormedBlock(rin)) =>
                    rout.ok /\ rout.val = Before(ty, PayloadOf(rin))
                                          \o RunsNested(RunsOf(rin).v, BoldInnermost)
                                          \o After(ty)

\* the argument is one run whose annotation map has its keys in some order
OneKeyOrderedRun ==
    /\ rfn = "rich_text_to_markdown"
    /\ rin.t = "list" /\ Len(rin.v) = 1
    /\ rin.v[1] \in KeyOrderedRuns

\* C20: the rendering of a rich-text run is fixed by its content and its
\* annotation values: it is the same for every order of the annotation
\* keys in the map.
C20_KeyOrderIrrelevant ==
    OneKeyOrderedRun =>
        \A o \in KeyOrders(DOMAIN rin.v[1].v["annotations"].v) :
            LET other == rich_text_to_markdown(JList(<<InKeyOrder(rin.v[1], o)>>))
            IN  /\ rout.ok /\ other.ok
                /\ other.val = rout.val

\* bold and italic both set, italic first in the map
C20_Witness ==
    /\ OneKeyOrderedRun
    /\ rin.v[1].v["annotations"].v = [k \in {"bold", "italic"} |-> JBool(TRUE)]
    /\ rin.v[1].v["annotations"].keys = <<"italic", "bold">>
    /\ rout.ok /\ rout.val = <<"*", "*", "*", "x", "*", "*", "*">>

-----------------------------------------------------------------------------
(* Properties of PropertyValue, under DecodeSpec *)

Populated(pv) == {k \in Kinds : pv.fields[k] # Null}

\* C10: every PropertyValue that decoding accepts has exactly one variant
\* field populated, the one named by its kind; a raw property whose kind does
\* not match its populated variant field is rejected.
C10_KindMatchesPopulatedField ==
    /\ (dfn = "PropertyValue" /\ dout.ok) => Populated(dout.val) = {dout.val.type.v[1]}
    /\ (dfn = "PropertyValue"
          /\ din = JDict(("id" :> Lit("p")) @@ ("type" :> Lit("number"))
                         @@ ("checkbox" :> JBool(TRUE))))
       => ~dout.ok

\* C11: for every PropertyValue p that was constructed, of each of the eight
\* kinds, constructing a PropertyValue from the serialisation of p gives a
\* value equal to p.
C11_DecodeInvertsEncode ==
    dfn = "round_trip" => dout.ok /\ dout.val = dval

\* a title whose raw rich text had only its required keys
C11_Witness ==
    /\ dfn = "round_trip"
    /\ dval.type = Lit("title")
    /\ Populated(dval) = {"title"}
    /\ Len(dval.fields["title"].v) = 1
    /\ DOMAIN din.v["title"].v[1].v = {"type", "text", "annotations", "plain_text", "href"}
    /\ dout.val = dval

====
